---- MODULE Spec2Model ----
(***************************************************************************)
(* Model of the cross-file Go obfuscator.                                  *)
(*                                                                         *)
(*  - Spec    : the source pipeline, Obfuscator.Run (collect imports,      *)
(*              collect protected names, scope analysis, mapping           *)
(*              construction, copy, per-file rewrite).                     *)
(*  - SpecBin : the binary phase, LinkerObfuscator.postProcessBinary       *)
(*              (format sniffing, pclntab lookup, prefix pass, path pass,  *)
(*              backup and overwrite).                                     *)
(*                                                                         *)
(* Go strings are TLA+ strings; a byte buffer is a sequence of byte values.*)
(* A Go map is a function whose DOMAIN is the set of its keys.             *)
(***************************************************************************)
EXTENDS Integers, Sequences, FiniteSets, TLC

VARIABLES
    \* ---- Obfuscator (source pipeline) ----
    Config,              \* Config.ObfuscateExported
    phase,               \* position of Run
    protectedNames,      \* o.protectedNames (set of names)
    packageNames,        \* o.packageNames (set of names)
    importAliasMapping,  \* o.importAliasMapping: import path -> alias
    fileScopes,          \* o.fileScopes: path -> scope tree of the file
    objectMapping,       \* o.objectMapping: Object -> replacement name
    funcMapping,         \* o.funcMapping: name -> replacement name
    varMapping,          \* o.varMapping: name -> replacement name
    namingCounter,       \* o.namingCounter
    output,              \* identifiers of each file of the output tree
    rewritten,           \* files of the output tree the rewrite phase has processed
    \* ---- LinkerObfuscator (binary phase) ----
    lo,                  \* lo.config
    origData,            \* bytes of the artifact when the phase starts
    artifact,            \* bytes of the file at lo.outputBin
    backup,              \* bytes of the file at lo.outputBin + ".backup"
    newData,             \* the patched buffer held in memory
    modified,            \* the `modified` result of the format handler
    patches,             \* log of the writes of the prefix pass
    pending,             \* the file writes postProcessBinary has still to do
    bpc,                 \* position of postProcessBinary
    \* ---- Obfuscator (files of the project and of the output tree) ----
    tree,                \* the files under o.projectRoot, in walk order
    skippedFiles,        \* o.skippedFiles: path -> reason
    fileNameMapping,     \* o.fileNameMapping: file name -> replacement file name
    fileMapping,         \* fileMapping of Run: output path -> original path
    outTree,             \* the files under o.outputDir: path -> content
    decryptFuncAdded,    \* o.decryptFuncAdded: package name -> true
    visited,             \* paths the walk in progress has visited
    \* ---- string encryption ----
    encryptionKey,       \* o.encryptionKey, as bytes
    text,                \* the argument of encryptString, as bytes
    encrypted,           \* the result of encryptString
    decrypted,           \* the result of the generated decrypt function
    cpc                  \* position of the encrypt / decrypt round trip

srcVars == <<Config, phase, protectedNames, packageNames, importAliasMapping,
             fileScopes, objectMapping, funcMapping, varMapping, namingCounter,
             output, rewritten>>
binVars == <<lo, origData, artifact, backup, newData, modified, patches, pending, bpc>>
treeVars == <<tree, skippedFiles, fileNameMapping, fileMapping, outTree, decryptFuncAdded,
              visited>>
cryptVars == <<encryptionKey, text, encrypted, decrypted, cpc>>
vars == <<srcVars, binVars, treeVars, cryptVars>>

(***************************************************************************)
(* Bounds of the model.                                                    *)
(***************************************************************************)
MaxDecls == 1       \* file-scope declarations drawn per file
MaxLocals == 1      \* local objects drawn per project

(***************************************************************************)
(* Strings and Go maps.                                                    *)
(***************************************************************************)
CharAt(s, i) == SubSeq(s, i, i)

HasPrefix(s, p) == Len(s) >= Len(p) /\ SubSeq(s, 1, Len(p)) = p

HasSuffix(s, p) == Len(s) >= Len(p) /\ SubSeq(s, Len(s) - Len(p) + 1, Len(s)) = p

Contains(s, p) == \E i \in 1..(Len(s) - Len(p) + 1) : SubSeq(s, i, i + Len(p) - 1) = p

TrimSuffix(s, p) == IF HasSuffix(s, p) THEN SubSeq(s, 1, Len(s) - Len(p)) ELSE s

RECURSIVE Repeat(_, _)
Repeat(c, n) == IF n <= 0 THEN "" ELSE c \o Repeat(c, n - 1)

EmptyMap == [x \in {} |-> ""]

MapPut(m, k, v) == [x \in DOMAIN m \cup {k} |-> IF x = k THEN v ELSE m[x]]

MapDelete(m, k) == [x \in DOMAIN m \ {k} |-> m[x]]

MapValues(m) == {m[x] : x \in DOMAIN m}

Perms(S) == {p \in [1..Cardinality(S) -> S] : \A i, j \in 1..Cardinality(S) : p[i] = p[j] => i = j}

UpperLetters == {"A", "B", "C", "D", "E", "F", "G", "H", "I", "J", "K", "L", "M",
                 "N", "O", "P", "Q", "R", "S", "T", "U", "V", "W", "X", "Y", "Z"}

LowerLetters == {"a", "b", "c", "d", "e", "f", "g", "h", "i", "j", "k", "l", "m",
                 "n", "o", "p", "q", "r", "s", "t", "u", "v", "w", "x", "y", "z"}

(***************************************************************************)
(* The project the run is given: identifier names, files, import paths.    *)
(***************************************************************************)
Names == {"t", "T"}

RegularFiles == {"a.go", "b.go"}

VendorFiles == {"vendor/v.go"}

ProjectFiles == RegularFiles \cup VendorFiles

ImportPaths == {"fmt", "os"}

\* outcomes drawn for generateRandomString: strings of the asked length
RandChars == {"a", "b"}

generateRandomString(length) == {Repeat(c, length) : c \in RandChars}

isExported(name) == Len(name) > 0 /\ CharAt(name, 1) \in UpperLetters

protectedIdentifiers ==
    {"error", "string", "int", "bool", "byte", "rune", "float32", "float64",
     "complex64", "complex128", "uint", "int8", "int16", "int32", "int64",
     "uint8", "uint16", "uint32", "uint64", "uintptr", "len", "cap", "make",
     "new", "append", "copy", "delete", "panic", "recover", "print", "println",
     "close", "min", "max", "clear", "nil", "true", "false", "iota"}

\* variant without the exported-name clause
shouldProtectInNoExported(cfg, prot, pkgs, name) ==
    \/ name = "_" \/ name = "main" \/ name = "init"
    \/ name \in prot
    \/ name \in pkgs
    \/ name \in protectedIdentifiers

shouldProtectIn(cfg, prot, pkgs, name) ==
    \/ name = "_" \/ name = "main" \/ name = "init"
    \/ (~cfg.ObfuscateExported /\ isExported(name))
    \/ name \in prot
    \/ name \in pkgs
    \/ name \in protectedIdentifiers

shouldProtect(name) == shouldProtectIn(Config, protectedNames, packageNames, name)

(***************************************************************************)
(* Scope analysis (ScopeAnalyzer).  A file is given by the declarations of *)
(* its root scope and the variables its function bodies declare.           *)
(***************************************************************************)
ObjectKinds == {"ObjFunc", "ObjVar", "ObjConst", "ObjType"}

PartialMaps(D, R, max) ==
    UNION {[S -> R] : S \in {X \in SUBSET D : Cardinality(X) <= max}}

\* the syntax trees the parser may hand to the analyzer
FileAsts ==
    [decls : PartialMaps(Names, ObjectKinds, MaxDecls), locals : SUBSET Names]

RECURSIVE SumLocals(_, _)
SumLocals(asts, files) ==
    IF files = {} THEN 0
    ELSE LET f == CHOOSE x \in files : TRUE
         IN  Cardinality(asts[f].locals) + SumLocals(asts, files \ {f})

\* the projects the run may be given: one tree per file
ProjectAsts(files) ==
    {asts \in [files -> FileAsts] : SumLocals(asts, files) <= MaxLocals}

\* declareObject: the Object put into a scope's table
declareObject(path, level, name, kind) ==
    [file |-> path, level |-> level, name |-> name, kind |-> kind,
     IsExported |-> isExported(name)]

\* Analyze: root scope with one Object per declaration, child scopes with the locals
Analyze(path, ast) ==
    [Objects |-> [n \in DOMAIN ast.decls |-> declareObject(path, "file", n, ast.decls[n])],
     Children |-> {declareObject(path, "local", n, "ObjVar") : n \in ast.locals}]

GetFileScope(analyzer) == analyzer.Objects

(***************************************************************************)
(* Replacement-name generation.                                            *)
(***************************************************************************)
maxAttempts == 100

isObfuscatedNameUsedInProject(om, name) ==
    \/ name \in MapValues(om)
    \/ name \in MapValues(funcMapping)
    \/ name \in MapValues(varMapping)
    \/ name \in MapValues(importAliasMapping)

NamePrefix(obj) ==
    IF obj.kind = "ObjFunc"
    THEN (IF isExported(obj.name) THEN "Fn" ELSE "fn")
    ELSE (IF isExported(obj.name) THEN "V" ELSE "l")

\* variant whose fallback reads the naming counter and leaves it as it is
generateUniqueObfuscatedNameKeepingCounter(obj, om, counter) ==
    IF obj \in DOMAIN om /\ om[obj] # ""
    THEN {[name |-> om[obj], counter |-> counter]}
    ELSE LET candidates == {NamePrefix(obj) \o r : r \in generateRandomString(12)}
             free == {c \in candidates : ~isObfuscatedNameUsedInProject(om, c)}
             allCollide == maxAttempts = 0 \/ free # candidates
         IN  {[name |-> c, counter |-> counter] : c \in IF maxAttempts > 0 THEN free ELSE {}}
             \cup
             {[name |-> NamePrefix(obj) \o ToString(counter) \o "_" \o r,
               counter |-> counter] :
                 r \in IF allCollide THEN generateRandomString(8) ELSE {}}

\* generateUniqueObfuscatedNameForObject: every result the retry loop and the
\* counter fallback can produce, with the naming counter it leaves
generateUniqueObfuscatedNameForObject(obj, om, counter) ==
    IF obj \in DOMAIN om /\ om[obj] # ""
    THEN {[name |-> om[obj], counter |-> counter]}
    ELSE LET candidates == {NamePrefix(obj) \o r : r \in generateRandomString(12)}
             free == {c \in candidates : ~isObfuscatedNameUsedInProject(om, c)}
             allCollide == maxAttempts = 0 \/ free # candidates
         IN  {[name |-> c, counter |-> counter] : c \in IF maxAttempts > 0 THEN free ELSE {}}
             \cup
             {[name |-> NamePrefix(obj) \o ToString(counter + 1) \o "_" \o r,
               counter |-> counter + 1] :
                 r \in IF allCollide THEN generateRandomString(8) ELSE {}}

(***************************************************************************)
(* buildObfuscationMapsWithScope.                                          *)
(***************************************************************************)
IsPackageLevelKind(kind) == kind \in {"ObjFunc", "ObjVar", "ObjConst"}

\* step 1: the package-level Objects of every file, in the order the files are ranged
allPackageLevelObjects(scopes, order) ==
    LET RECURSIVE Collect(_)
        Collect(i) ==
            IF i > Len(order) THEN << >>
            ELSE LET table == GetFileScope(scopes[order[i]])
                     here == {n \in DOMAIN table : IsPackageLevelKind(table[n].kind)}
                 IN  \* at most one Object per name and file; names are ranged in any order
                     (CHOOSE q \in Perms({table[n] : n \in here}) : TRUE) \o Collect(i + 1)
    IN  Collect(1)

\* variant that keeps only the Object collected last under a name
nameToObjectsLast(all, name) ==
    LET sel == SelectSeq(all, LAMBDA o : o.name = name)
    IN  IF sel = << >> THEN sel ELSE <<sel[Len(sel)]>>

\* step 2: nameToObjects[name], the Objects named `name` in collection order
nameToObjects(all, name) == SelectSeq(all, LAMBDA o : o.name = name)

GroupNames(all) == {all[i].name : i \in 1..Len(all)}

\* collectObjectsForObfuscation: every Object marked "" before names are generated
collectObjectsForObfuscation(scopes) ==
    LET fileLevel == UNION {{GetFileScope(scopes[f])[n] : n \in DOMAIN GetFileScope(scopes[f])}
                            : f \in DOMAIN scopes}
        localLevel == UNION {scopes[f].Children : f \in DOMAIN scopes}
        marked == {o \in fileLevel : IsPackageLevelKind(o.kind)}
                  \cup {o \in localLevel : o.kind \in {"ObjVar", "ObjConst"}}
    IN  [o \in marked |-> ""]

SetAll(om, objs, name) ==
    [o \in DOMAIN om \cup {objs[i] : i \in 1..Len(objs)} |->
        IF \E i \in 1..Len(objs) : objs[i] = o THEN name ELSE om[o]]

shouldProtectObject(obj) == shouldProtect(obj.name)

\* step 3, one iteration of the loop over nameToObjects
GroupStep(all, name, st) ==
    LET objects == nameToObjects(all, name)
        firstObj == objects[1]
    IN  IF Len(objects) = 0 THEN {st}
        ELSE IF shouldProtect(name) THEN {st}
        ELSE IF firstObj.IsExported /\ ~Config.ObfuscateExported THEN {st}
        ELSE {[om |-> SetAll(st.om, objects, g.name), counter |-> g.counter] :
                g \in generateUniqueObfuscatedNameForObject(firstObj, st.om, st.counter)}

RECURSIVE GroupLoop(_, _, _)
GroupLoop(all, names, st) ==
    IF names = {} THEN {st}
    ELSE UNION {UNION {GroupLoop(all, names \ {n}, st2) : st2 \in GroupStep(all, n, st)}
                : n \in names}

\* one iteration of the loop over the Objects still marked ""
LocalStep(obj, st) ==
    IF st.om[obj] # "" THEN {st}
    ELSE IF shouldProtectObject(obj)
    THEN {[om |-> MapDelete(st.om, obj), counter |-> st.counter]}
    ELSE {[om |-> MapPut(st.om, obj, g.name), counter |-> g.counter] :
            g \in generateUniqueObfuscatedNameForObject(obj, st.om, st.counter)}

RECURSIVE LocalLoop(_, _)
LocalLoop(objs, st) ==
    IF objs = {} THEN {st}
    ELSE UNION {UNION {LocalLoop(objs \ {o}, st2) : st2 \in LocalStep(o, st)} : o \in objs}

\* the sync of the identity-keyed result into funcMapping / varMapping
SyncMapping(all, om, old, kinds) ==
    LET synced == {n \in GroupNames(all) :
                     LET firstObj == nameToObjects(all, n)[1]
                     IN  /\ firstObj \in DOMAIN om
                         /\ om[firstObj] # ""
                         /\ firstObj.kind \in kinds}
    IN  [n \in DOMAIN old \cup synced |->
            IF n \in synced THEN om[nameToObjects(all, n)[1]] ELSE old[n]]

\* every result of the builder for one order of ranging over o.fileScopes
BuildOutcomes(order) ==
    LET all == allPackageLevelObjects(fileScopes, order)
        marked == [o \in DOMAIN objectMapping \cup DOMAIN collectObjectsForObfuscation(fileScopes) |->
                     IF o \in DOMAIN collectObjectsForObfuscation(fileScopes) THEN ""
                     ELSE objectMapping[o]]
        afterGroups == GroupLoop(all, GroupNames(all), [om |-> marked, counter |-> namingCounter])
        afterLocals == UNION {LocalLoop(DOMAIN st.om, st) : st \in afterGroups}
    IN  {[om |-> st.om, counter |-> st.counter,
          fm |-> SyncMapping(all, st.om, funcMapping, {"ObjFunc"}),
          vm |-> SyncMapping(all, st.om, varMapping, {"ObjVar", "ObjConst"})] :
            st \in afterLocals}

(***************************************************************************)
(* Identifier rewriting.  An identifier occurrence is its name, whether    *)
(* markTypeIdents marks it, and the syntactic place it stands in.          *)
(***************************************************************************)
IdentRoles == {"ref", "funcDecl", "valueSpec"}

Idents == [name : Names, typeRef : BOOLEAN, role : IdentRoles]

\* variant resolving through the whole scope tree (findObjectInScopeRecursive)
obfuscateIdentRecursive(analyzer, id) ==
    LET fileScope == GetFileScope(analyzer)
        inChildren == {o \in analyzer.Children : o.name = id.name}
        found == id.name \in DOMAIN fileScope \/ inChildren # {}
        obj == IF id.name \in DOMAIN fileScope THEN fileScope[id.name]
               ELSE CHOOSE o \in inChildren : TRUE
    IN  IF id.typeRef THEN id.name
        ELSE IF shouldProtect(id.name) THEN id.name
        ELSE IF found /\ obj.kind = "ObjType" THEN id.name
        ELSE IF found /\ obj \in DOMAIN objectMapping /\ objectMapping[obj] # ""
             THEN objectMapping[obj]
        ELSE IF id.name \in DOMAIN funcMapping THEN funcMapping[id.name]
        ELSE IF id.name \in DOMAIN varMapping THEN varMapping[id.name]
        ELSE id.name

\* variant without the test for type Objects of the root scope
obfuscateIdentIgnoringTypeObjects(analyzer, id) ==
    LET fileScope == GetFileScope(analyzer)
        found == id.name \in DOMAIN fileScope
        obj == fileScope[id.name]
    IN  IF id.typeRef THEN id.name
        ELSE IF shouldProtect(id.name) THEN id.name
        ELSE IF found /\ obj \in DOMAIN objectMapping /\ objectMapping[obj] # ""
             THEN objectMapping[obj]
        ELSE IF id.name \in DOMAIN funcMapping THEN funcMapping[id.name]
        ELSE IF id.name \in DOMAIN varMapping THEN varMapping[id.name]
        ELSE id.name

\* obfuscateIdentifiersWithScope, second pass, for one *ast.Ident
obfuscateIdentWithScope(analyzer, id) ==
    LET fileScope == GetFileScope(analyzer)
        found == id.name \in DOMAIN fileScope
        obj == fileScope[id.name]
    IN  IF id.typeRef THEN id.name
        ELSE IF shouldProtect(id.name) THEN id.name
        ELSE IF found /\ obj.kind = "ObjType" THEN id.name
        ELSE IF found /\ obj \in DOMAIN objectMapping /\ objectMapping[obj] # ""
             THEN objectMapping[obj]
        ELSE IF id.name \in DOMAIN funcMapping THEN funcMapping[id.name]
        ELSE IF id.name \in DOMAIN varMapping THEN varMapping[id.name]
        ELSE id.name

\* the *ast.Ident case of the fallback path: varMapping, then funcMapping
legacyIdentCase(name) ==
    IF shouldProtect(name) THEN name
    ELSE LET n1 == IF name \in DOMAIN varMapping THEN varMapping[name] ELSE name
         IN  IF n1 \in DOMAIN funcMapping THEN funcMapping[n1] ELSE n1

\* applyTransformationsWithScope without scope information, for one identifier
obfuscateIdentLegacy(id) ==
    LET afterDecl ==
            IF id.role = "funcDecl" /\ ~shouldProtect(id.name) /\ id.name \in DOMAIN funcMapping
            THEN funcMapping[id.name]
            ELSE IF id.role = "valueSpec" /\ ~shouldProtect(id.name) /\ id.name \in DOMAIN varMapping
            THEN varMapping[id.name]
            ELSE id.name
    IN  legacyIdentCase(afterDecl)

\* applyTransformationsWithScope, steps 3 and 4, for every identifier of a file
applyTransformationsWithScope(path) ==
    [id \in Idents |->
        IF path \in DOMAIN fileScopes
        THEN obfuscateIdentWithScope(fileScopes[path], id)
        ELSE obfuscateIdentLegacy(id)]

(***************************************************************************)
(* Run: the phases of the source pipeline.                                 *)
(***************************************************************************)
RECURSIVE Base(_)
Base(path) ==
    IF Contains(path, "/")
    THEN Base(SubSeq(path, 2, Len(path)))
    ELSE path

isStandardLibrary(importPath) ==
    \/ HasPrefix(importPath, "internal/")
    \/ HasPrefix(importPath, "vendor/")
    \/ LET idx == IF Contains(importPath, "/")
                  THEN CHOOSE i \in 1..Len(importPath) :
                         /\ CharAt(importPath, i) = "/"
                         /\ \A j \in 1..(i - 1) : CharAt(importPath, j) # "/"
                  ELSE 0
           firstComponent == IF idx = 0 THEN importPath ELSE SubSeq(importPath, 1, idx - 1)
       IN  ~Contains(firstComponent, ".")

WalkOrder == <<"a.go", "b.go", "vendor/v.go">>

InitSrc ==
    /\ Config \in [ObfuscateExported : BOOLEAN]
    /\ phase = "imports"
    /\ protectedNames = {}
    /\ packageNames = {}
    /\ importAliasMapping = EmptyMap
    /\ fileScopes = EmptyMap
    /\ objectMapping = EmptyMap
    /\ funcMapping = EmptyMap
    /\ varMapping = EmptyMap
    /\ namingCounter = 0
    /\ output = EmptyMap
    /\ rewritten = {}

\* Run, phase 0: collectImportInfo over the project
CollectImportInfo ==
    /\ phase = "imports"
    /\ \E imported \in {ImportPaths} :
       \E alias \in [{p \in imported : isStandardLibrary(p)} ->
                        {"p" \o r : r \in generateRandomString(8)}] :
          /\ packageNames' = packageNames \cup {Base(p) : p \in imported}
          /\ importAliasMapping' =
                [p \in DOMAIN importAliasMapping \cup DOMAIN alias |->
                    IF p \in DOMAIN importAliasMapping THEN importAliasMapping[p] ELSE alias[p]]
    /\ phase' = "collect"
    /\ UNCHANGED <<Config, protectedNames, fileScopes, objectMapping, funcMapping,
                   varMapping, namingCounter, output, rewritten>>
    /\ UNCHANGED <<binVars, treeVars, cryptVars>>

\* Run, phase 1: collectProtectedNames over every file outside vendor/
CollectProtectedNames ==
    /\ phase = "collect"
    /\ \E asserted \in [{f \in ProjectFiles : ~Contains(f, "vendor/")} -> SUBSET Names] :
          protectedNames' = protectedNames \cup UNION {asserted[f] : f \in DOMAIN asserted}
    /\ phase' = "scope"
    /\ UNCHANGED <<Config, packageNames, importAliasMapping, fileScopes, objectMapping,
                   funcMapping, varMapping, namingCounter, output, rewritten>>
    /\ UNCHANGED <<binVars, treeVars, cryptVars>>

\* Run, phase 2: buildScopeAnalysis over every file outside vendor/
BuildScopeAnalysis ==
    /\ phase = "scope"
    /\ \E asts \in ProjectAsts({f \in ProjectFiles : ~Contains(f, "vendor/")}) :
          fileScopes' = [f \in DOMAIN asts |-> Analyze(f, asts[f])]
    /\ phase' = "build"
    /\ UNCHANGED <<Config, protectedNames, packageNames, importAliasMapping, objectMapping,
                   funcMapping, varMapping, namingCounter, output, rewritten>>
    /\ UNCHANGED <<binVars, treeVars, cryptVars>>

\* Run, phase 3: buildObfuscationMapsWithScope
BuildObfuscationMapsWithScope ==
    /\ phase = "build"
    /\ \E order \in Perms(DOMAIN fileScopes) :
       \E res \in BuildOutcomes(order) :
          /\ objectMapping' = res.om
          /\ namingCounter' = res.counter
          /\ funcMapping' = res.fm
          /\ varMapping' = res.vm
    /\ phase' = "copy"
    /\ UNCHANGED <<Config, protectedNames, packageNames, importAliasMapping, fileScopes,
                   output, rewritten>>
    /\ UNCHANGED <<binVars, treeVars, cryptVars>>

\* Run, phase 4: copyProjectAndBuildMapping
CopyProject ==
    /\ phase = "copy"
    /\ output' = [f \in ProjectFiles |-> [id \in Idents |-> id.name]]
    /\ phase' = "rewrite"
    /\ UNCHANGED <<Config, protectedNames, packageNames, importAliasMapping, fileScopes,
                   objectMapping, funcMapping, varMapping, namingCounter, rewritten>>
    /\ UNCHANGED <<binVars, treeVars, cryptVars>>

\* variant that gives a name to every identifier still unmapped while it rewrites
ObfuscateFileNamingLazily ==
    /\ phase = "rewrite"
    /\ Cardinality(rewritten) < Len(WalkOrder)
    /\ LET path == WalkOrder[Cardinality(rewritten) + 1]
       IN  /\ output' = [output EXCEPT ![path] = applyTransformationsWithScope(path)]
           /\ rewritten' = rewritten \cup {path}
    /\ funcMapping' = [n \in Names |-> IF n \in DOMAIN funcMapping THEN funcMapping[n]
                                       ELSE "fn" \o n]
    /\ UNCHANGED <<Config, phase, protectedNames, packageNames, importAliasMapping,
                   fileScopes, objectMapping, varMapping, namingCounter>>
    /\ UNCHANGED <<binVars, treeVars, cryptVars>>

\* Run, phase 5: obfuscateFileWithMapping on the next file of the walk
ObfuscateFile ==
    /\ phase = "rewrite"
    /\ Cardinality(rewritten) < Len(WalkOrder)
    /\ LET path == WalkOrder[Cardinality(rewritten) + 1]
       IN  /\ output' = [output EXCEPT ![path] = applyTransformationsWithScope(path)]
           /\ rewritten' = rewritten \cup {path}
    /\ UNCHANGED <<Config, phase, protectedNames, packageNames, importAliasMapping,
                   fileScopes, objectMapping, funcMapping, varMapping, namingCounter>>
    /\ UNCHANGED <<binVars, treeVars, cryptVars>>

\* Run returns
RunReturns ==
    /\ phase = "rewrite"
    /\ Cardinality(rewritten) = Len(WalkOrder)
    /\ phase' = "done"
    /\ UNCHANGED <<Config, protectedNames, packageNames, importAliasMapping, fileScopes,
                   objectMapping, funcMapping, varMapping, namingCounter, output, rewritten>>
    /\ UNCHANGED <<binVars, treeVars, cryptVars>>

\* the file at a path that does not exist
NoFile == <<-1>>

\* the binary phase is not part of Run
BinIdle ==
    /\ lo = [config |-> [PackageReplacements |-> EmptyMap, OnlyObfuscateProject |-> FALSE,
                         DisablePclntab |-> TRUE, RemoveFuncNames |-> FALSE]]
    /\ origData = << >>
    /\ artifact = << >>
    /\ backup = NoFile
    /\ newData = << >>
    /\ modified = FALSE
    /\ patches = {}
    /\ pending = << >>
    /\ bpc = "idle"

\* no file tree is walked
TreeIdle ==
    /\ tree = << >>
    /\ skippedFiles = EmptyMap
    /\ fileNameMapping = EmptyMap
    /\ fileMapping = EmptyMap
    /\ outTree = EmptyMap
    /\ decryptFuncAdded = EmptyMap
    /\ visited = {}

\* no string is encrypted
CryptIdle ==
    /\ encryptionKey = << >>
    /\ text = << >>
    /\ encrypted = ""
    /\ decrypted = << >>
    /\ cpc = "idle"

Init == InitSrc /\ BinIdle /\ TreeIdle /\ CryptIdle

Next ==
    \/ CollectImportInfo
    \/ CollectProtectedNames
    \/ BuildScopeAnalysis
    \/ BuildObfuscationMapsWithScope
    \/ CopyProject
    \/ ObfuscateFile
    \/ RunReturns

Spec == Init /\ [][Next]_vars

(***************************************************************************)
(* Properties of the source pipeline.                                      *)
(***************************************************************************)
BuildFinished == phase \in {"copy", "rewrite", "done"}

\* the package-scope function / variable / constant Objects of the project
PackageScopeObjects ==
    {o \in UNION {{GetFileScope(fileScopes[f])[n] : n \in DOMAIN GetFileScope(fileScopes[f])}
                  : f \in DOMAIN fileScopes} : IsPackageLevelKind(o.kind)}

LocalObjects == UNION {fileScopes[f].Children : f \in DOMAIN fileScopes}

PlainRef(name) == [name |-> name, typeRef |-> FALSE, role |-> "ref"]

\* C1: once buildObfuscationMapsWithScope has finished, any two package-scope
\* function / variable / constant Objects with the same name, whatever their files,
\* hold the identical replacement name in objectMapping, or are both unmapped.
C1_SameNameSameReplacement ==
    BuildFinished =>
        \A o1, o2 \in PackageScopeObjects :
            o1.name = o2.name =>
                /\ (o1 \in DOMAIN objectMapping) <=> (o2 \in DOMAIN objectMapping)
                /\ o1 \in DOMAIN objectMapping =>
                      /\ objectMapping[o1] = objectMapping[o2]
                      /\ objectMapping[o1] # ""

\* C1 witness: two same-named package-scope Objects of different files and different
\* kinds are mapped after the builder ran.
C1_Witness ==
    /\ BuildFinished
    /\ \E o1, o2 \in PackageScopeObjects :
          /\ o1.name = o2.name
          /\ o1.file # o2.file
          /\ o1.kind # o2.kind
          /\ o1 \in DOMAIN objectMapping
          /\ o2 \in DOMAIN objectMapping
          /\ objectMapping[o1] # o1.name

\* the case of C2: file f was rewritten, declares a local variable n and no
\* package-level n, and another file g declares a mapped package-level function n
C2_Case(f, g, n) ==
    /\ f \in rewritten
    /\ f \in DOMAIN fileScopes
    /\ g \in DOMAIN fileScopes
    /\ f # g
    /\ \E o \in fileScopes[f].Children : o.name = n
    /\ n \notin DOMAIN GetFileScope(fileScopes[f])
    /\ n \in DOMAIN GetFileScope(fileScopes[g])
    /\ GetFileScope(fileScopes[g])[n].kind = "ObjFunc"
    /\ GetFileScope(fileScopes[g])[n] \in DOMAIN objectMapping

C3_ExportedUntouched ==
    ~Config.ObfuscateExported =>
        /\ \A o \in DOMAIN objectMapping : ~isExported(o.name)
        /\ \A n \in DOMAIN funcMapping \cup DOMAIN varMapping : ~isExported(n)
        /\ \A f \in DOMAIN output : \A id \in Idents :
              isExported(id.name) => output[f][id] = id.name

\* C3 witness: export renaming is off, exported Objects are declared at package and
\* local level, the builder mapped some other Object, and every file was rewritten.
C3_Witness ==
    /\ ~Config.ObfuscateExported
    /\ phase = "done"
    /\ \E o \in PackageScopeObjects : isExported(o.name)
    /\ \E o \in LocalObjects : isExported(o.name)
    /\ objectMapping # EmptyMap

\* two distinct Objects that the builder does not name together
DifferentGroups(o1, o2) ==
    o1 # o2 /\ ~(o1 \in PackageScopeObjects /\ o2 \in PackageScopeObjects /\ o1.name = o2.name)

GoKeywords ==
    {"break", "case", "chan", "const", "continue", "default", "defer", "else",
     "fallthrough", "for", "func", "go", "goto", "if", "import", "interface", "map",
     "package", "range", "return", "select", "struct", "switch", "type", "var"}

\* C4 (as claimed): after mapping construction the generated names (replacement names
\* of distinct groups and locals, import aliases), the protected names and the
\* reserved keywords are pairwise distinct.
C4_NoCollision ==
    BuildFinished =>
        /\ \A o1, o2 \in DOMAIN objectMapping :
              DifferentGroups(o1, o2) => objectMapping[o1] # objectMapping[o2]
        /\ \A p1, p2 \in DOMAIN importAliasMapping :
              p1 # p2 => importAliasMapping[p1] # importAliasMapping[p2]
        /\ MapValues(objectMapping) \cap MapValues(importAliasMapping) = {}
        /\ (MapValues(objectMapping) \cup MapValues(importAliasMapping))
              \cap (protectedNames \cup packageNames \cup protectedIdentifiers \cup GoKeywords) = {}

(***************************************************************************)
(* Byte buffers.  Offsets are Go offsets (from 0); a buffer is a sequence  *)
(* of byte values, so Go's data[i] is data[i + 1] here.                    *)
(***************************************************************************)
IndexIn(s, c) == CHOOSE i \in 1..Len(s) : CharAt(s, i) = c

CharsOf(s) == {CharAt(s, i) : i \in 1..Len(s)}

\* the byte value of a one-character string
Ord ==
    [c \in CharsOf("0123456789") |-> 47 + IndexIn("0123456789", c)]
    @@ [c \in CharsOf("ABCDEFGHIJKLMNOPQRSTUVWXYZ") |-> 64 + IndexIn("ABCDEFGHIJKLMNOPQRSTUVWXYZ", c)]
    @@ [c \in CharsOf("abcdefghijklmnopqrstuvwxyz") |-> 96 + IndexIn("abcdefghijklmnopqrstuvwxyz", c)]
    @@ (" " :> 32 @@ "(" :> 40 @@ ")" :> 41 @@ "*" :> 42 @@ "-" :> 45 @@ "." :> 46
        @@ "/" :> 47 @@ "_" :> 95)

\* []byte(s)
Bytes(s) == [i \in 1..Len(s) |-> Ord[CharAt(s, i)]]

\* data[a:b]
Slice(data, a, b) == SubSeq(data, a + 1, b)

\* copy(data[j:j+len(src)], src)
CopyAt(data, j, src) ==
    [i \in 1..Len(data) |-> IF i > j /\ i <= j + Len(src) THEN src[i - j] ELSE data[i]]

IsLetterByte(b) ==
    \/ (b >= Ord["a"] /\ b <= Ord["z"])
    \/ (b >= Ord["A"] /\ b <= Ord["Z"])

IsDigitByte(b) == b >= Ord["0"] /\ b <= Ord["9"]

\* the pclntab magic values, as the four bytes binary.LittleEndian.Uint32 decodes
go12magic == <<251, 255, 255, 255>>

go116magic == <<250, 255, 255, 255>>

go118magic == <<240, 255, 255, 255>>

go120magic == <<241, 255, 255, 255>>

detectBinaryFormat(data) ==
    IF Len(data) < 4 THEN "Unknown"
    ELSE IF data[1] = 127 /\ data[2] = Ord["E"] /\ data[3] = Ord["L"] /\ data[4] = Ord["F"]
    THEN "ELF"
    ELSE IF data[1] = Ord["M"] /\ data[2] = Ord["Z"] THEN "PE"
    ELSE IF Slice(data, 0, 4) \in {<<206, 250, 237, 254>>, <<254, 237, 250, 206>>,
                                   <<207, 250, 237, 254>>, <<254, 237, 250, 207>>}
    THEN "Mach-O"
    ELSE "Unknown"

findPclntabMagic(data) ==
    LET hits == {i \in 0..(Len(data) - 4) :
                    Slice(data, i, i + 4) \in {go12magic, go116magic, go118magic, go120magic}}
    IN  IF hits = {} THEN -1 ELSE CHOOSE i \in hits : \A k \in hits : i <= k

(***************************************************************************)
(* NaturalNameGenerator.  A result is every string the generator can       *)
(* return; secureRandInt(max) is drawn from the first RandWidth values.    *)
(***************************************************************************)
RandWidth == 2

secureRandInt(max) == IF max <= 0 THEN {0} ELSE {i \in 0..(max - 1) : i < RandWidth}

pkgPrefixes == <<"app", "lib", "pkg", "sys", "web", "api", "net", "db",
                 "svc", "core", "util", "data", "log", "auth", "cache">>

pkgSuffixes == <<"core", "util", "base", "main", "impl", "svc", "mgr",
                 "handler", "service", "client", "server", "config">>

pkgMiddles == <<"", "http", "grpc", "rest", "rpc", "sql", "store">>

shortNames == <<"a", "b", "c", "x", "y", "z",
                "ab", "io", "os", "db", "fs", "ws",
                "app", "api", "sys", "lib", "net", "log">>

letters == "abcdefghijklmnopqrstuvwxyz"

vowels == "aeiou"

consonants == "bcdfghjklmnpqrstvwxyz"

RECURSIVE padWithLetters(_, _)
padWithLetters(base, targetLength) ==
    IF Len(base) >= targetLength THEN {base}
    ELSE UNION {padWithLetters(base \o CharAt(letters, k + 1), targetLength) :
                  k \in secureRandInt(Len(letters))}

randomLetters(length) == padWithLetters("", length)

generateShortName(length) ==
    LET candidates == SelectSeq(shortNames, LAMBDA name : Len(name) = length)
    IN  IF Len(candidates) > 0
        THEN {candidates[idx + 1] : idx \in secureRandInt(Len(candidates))}
        ELSE randomLetters(length)

generateMediumName(length) ==
    LET exactPrefix == SelectSeq(pkgPrefixes, LAMBDA w : Len(w) = length)
        exactSuffix == SelectSeq(pkgSuffixes, LAMBDA w : Len(w) = length)
        combine(word) ==
            IF Len(word) > length THEN {SubSeq(word, 1, length)}
            ELSE IF Len(word) < length
            THEN UNION {LET combined == word \o pkgMiddles[m + 1]
                        IN  IF Len(combined) >= length THEN {SubSeq(combined, 1, length)}
                            ELSE padWithLetters(combined, length)
                        : m \in secureRandInt(Len(pkgMiddles))}
            ELSE {word}
    IN  IF Len(exactPrefix) > 0 THEN {exactPrefix[1]}
        ELSE IF Len(exactSuffix) > 0 THEN {exactSuffix[1]}
        ELSE IF length >= 4
        THEN UNION {combine(pkgPrefixes[w + 1]) : w \in secureRandInt(Len(pkgPrefixes))}
        ELSE randomLetters(length)

generateLongName(length) ==
    UNION {UNION {
        LET prefix == pkgPrefixes[p + 1]
            suffix == pkgSuffixes[s + 1]
            combined == prefix \o suffix
        IN  IF Len(combined) > length THEN {SubSeq(combined, 1, length)}
            ELSE IF Len(combined) < length
            THEN UNION {LET withMiddle == prefix \o pkgMiddles[m + 1] \o suffix
                        IN  IF Len(withMiddle) >= length THEN {SubSeq(withMiddle, 1, length)}
                            ELSE padWithLetters(withMiddle, length)
                        : m \in secureRandInt(Len(pkgMiddles))}
            ELSE {combined}
        : s \in secureRandInt(Len(pkgSuffixes))} : p \in secureRandInt(Len(pkgPrefixes))}

generateName(length) ==
    IF length <= 3 THEN generateShortName(length)
    ELSE IF length <= 8 THEN generateMediumName(length)
    ELSE generateLongName(length)

RECURSIVE readableLoop(_, _, _)
readableLoop(result, length, useVowel) ==
    IF Len(result) >= length THEN {result}
    ELSE IF useVowel
    THEN UNION {readableLoop(result \o CharAt(vowels, k + 1), length, FALSE) :
                  k \in secureRandInt(Len(vowels))}
    ELSE UNION {readableLoop(result \o CharAt(consonants, k + 1), length, TRUE) :
                  k \in secureRandInt(Len(consonants))}

generateRandomReadable(original, length, hasDot) ==
    LET first == IF Len(original) > 0 /\ CharAt(original, 1) \in LowerLetters
                 THEN {CharAt(original, 1)}
                 ELSE {CharAt(letters, k + 1) : k \in secureRandInt(Len(letters))}
    IN  {r \o (IF hasDot THEN "." ELSE "") :
            r \in UNION {readableLoop(f, length, FALSE) : f \in first}}

\* variant that reserves the room of the final dot and never appends it
GeneratePackageNameNoDot(usedNames, originalName, targetLength) ==
    LET hasDot == HasSuffix(originalName, ".")
        length == IF hasDot THEN targetLength - 1 ELSE targetLength
        names == generateName(length)
        free == names \ usedNames
    IN  {[name |-> n, usedNames |-> usedNames \cup {n}] : n \in free}
        \cup
        {[name |-> r, usedNames |-> usedNames] :
            r \in IF free # names THEN generateRandomReadable(originalName, length, FALSE) ELSE {}}

\* GeneratePackageName: a name the retry loop finds unused, or, when every one of
\* its attempts can hit a used name, the result of generateRandomReadable
GeneratePackageName(usedNames, originalName, targetLength) ==
    LET hasDot == HasSuffix(originalName, ".")
        length == IF hasDot THEN targetLength - 1 ELSE targetLength
        names == {n \o (IF hasDot THEN "." ELSE "") : n \in generateName(length)}
        free == names \ usedNames
    IN  {[name |-> n, usedNames |-> usedNames \cup {n}] : n \in free}
        \cup
        {[name |-> r, usedNames |-> usedNames] :
            r \in IF free # names THEN generateRandomReadable(originalName, length, hasDot) ELSE {}}

(***************************************************************************)
(* The neighbour checks.                                                   *)
(***************************************************************************)
\* variant with the reject list of the path pass (letters and underscore only)
isSafeFunctionNamePrefixLoose(data, pos, pattern) ==
    LET prevChar == data[pos]
        prevVerdict ==
            IF pos > 0
            THEN IF prevChar = 0 THEN "safe"
                 ELSE IF prevChar < 32 /\ prevChar # Ord[" "] THEN "safe"
                 ELSE IF \/ IsLetterByte(prevChar)
                         \/ prevChar = Ord["_"]
                      THEN "unsafe"
                 ELSE "next"
            ELSE "next"
    IN  IF prevVerdict = "safe" THEN TRUE
        ELSE IF prevVerdict = "unsafe" THEN FALSE
        ELSE IF (\E k \in 1..Len(pattern) : pattern[k] = Ord["."]) /\ pos + Len(pattern) < Len(data)
        THEN LET nextChar == data[pos + Len(pattern) + 1]
             IN  nextChar = 0 \/ IsLetterByte(nextChar)
        ELSE TRUE

isSafeFunctionNamePrefix(data, pos, pattern) ==
    LET prevChar == data[pos]
        prevVerdict ==
            IF pos > 0
            THEN IF prevChar = 0 THEN "safe"
                 ELSE IF prevChar < 32 /\ prevChar # Ord[" "] THEN "safe"
                 ELSE IF \/ IsLetterByte(prevChar)
                         \/ IsDigitByte(prevChar)
                         \/ prevChar = Ord["."]
                         \/ prevChar = Ord["/"]
                         \/ prevChar = Ord["_"]
                         \/ prevChar = Ord["-"]
                      THEN "unsafe"
                 ELSE "next"
            ELSE "next"
    IN  IF prevVerdict = "safe" THEN TRUE
        ELSE IF prevVerdict = "unsafe" THEN FALSE
        ELSE IF (\E k \in 1..Len(pattern) : pattern[k] = Ord["."]) /\ pos + Len(pattern) < Len(data)
        THEN LET nextChar == data[pos + Len(pattern) + 1]
             IN  nextChar = 0 \/ IsLetterByte(nextChar)
        ELSE TRUE

\* bytes.Contains
ContainsBytes(data, sub) ==
    \E i \in 0..(Len(data) - Len(sub)) : Slice(data, i, i + Len(sub)) = sub

\* bytes.HasPrefix
HasPrefixBytes(data, sub) == Len(data) >= Len(sub) /\ Slice(data, 0, Len(sub)) = sub

dangerousPatterns ==
    {Bytes("/System/Library/"), Bytes("/usr/lib/"), Bytes("/usr/local/"),
     Bytes("Library/Frameworks/"), Bytes(".framework/"), Bytes(".dylib"), Bytes("/Cryptexes/")}

afterDangerousPatterns == {Bytes(".framework"), Bytes(".dylib")}

\* isSafeToReplace: no system path fragment in the 100 bytes before, none right after
isSafeToReplace(data, pos, length) ==
    LET contextStart == IF pos - 100 < 0 THEN 0 ELSE pos - 100
        contextBefore == Slice(data, contextStart, pos)
        contextEnd == IF pos + length + 50 > Len(data) THEN Len(data) ELSE pos + length + 50
        contextAfter == Slice(data, pos + length, contextEnd)
    IN  /\ \A dangerous \in dangerousPatterns : ~ContainsBytes(contextBefore, dangerous)
        /\ \A dangerous \in afterDangerousPatterns : ~HasPrefixBytes(contextAfter, dangerous)

\* variant that consults isSafeToReplace before the neighbour bytes
isSafePackagePathReplacementDenylist(data, pos, length) ==
    /\ isSafeToReplace(data, pos, length)
    /\ pos > 0 => ~(IsLetterByte(data[pos]) \/ data[pos] = Ord["_"])
    /\ pos + length < Len(data) =>
          LET nextChar == data[pos + length + 1]
          IN  ~(IsLetterByte(nextChar) \/ IsDigitByte(nextChar) \/ nextChar = Ord["_"])

isSafePackagePathReplacement(data, pos, length) ==
    /\ pos > 0 => ~(IsLetterByte(data[pos]) \/ data[pos] = Ord["_"])
    /\ pos + length < Len(data) =>
          LET nextChar == data[pos + length + 1]
          IN  ~(IsLetterByte(nextChar) \/ IsDigitByte(nextChar) \/ nextChar = Ord["_"])

(***************************************************************************)
(* obfuscateFunctionNames: the pattern table, the prefix pass over the     *)
(* window after the pclntab offset, and the path pass over the whole file. *)
(***************************************************************************)
StdLibNames ==
    {"runtime", "sync", "fmt", "os", "io", "net", "http", "bufio", "bytes", "strings",
     "strconv", "time", "math", "errors", "context", "encoding", "json", "xml",
     "base64", "hex", "unicode", "regexp", "log", "sort", "path", "filepath", "syscall"}

\* standardLibs of obfuscateFunctionNames: "main" is entered as false
standardLibs(pkgName) == pkgName \in StdLibNames

\* standardLibs of replaceProjectPackagePathsGlobal: "main" is entered as true
standardLibsGlobal(pkgName) == pkgName \in StdLibNames \cup {"main"}

defaultPatterns(cfg) ==
    IF cfg.OnlyObfuscateProject THEN <<"main.">>
    ELSE <<"main.", "runtime.", "sync.", "fmt.", "os.", "io.", "net.", "http.">>

WithDot(s) == IF HasSuffix(s, ".") THEN s ELSE s \o "."

\* the entries of the pattern table for one order of ranging over PackageReplacements;
\* regenerate marks a replacement whose length differs from that of the pattern
PatternItems(cfg, order) ==
    IF DOMAIN cfg.PackageReplacements # {}
    THEN LET kept == SelectSeq(order, LAMBDA original :
                        ~(cfg.OnlyObfuscateProject /\ standardLibs(TrimSuffix(original, "."))))
         IN  [i \in 1..Len(kept) |->
                [pattern |-> WithDot(kept[i]),
                 replacement |-> WithDot(cfg.PackageReplacements[kept[i]]),
                 regenerate |-> Len(WithDot(cfg.PackageReplacements[kept[i]])) # Len(WithDot(kept[i]))]]
    ELSE [i \in 1..Len(defaultPatterns(cfg)) |->
                [pattern |-> defaultPatterns(cfg)[i], replacement |-> "", regenerate |-> TRUE]]

\* the patterns of the table, whatever the order
ConfiguredPatterns(cfg) ==
    {WithDot(original) : original \in
        {k \in DOMAIN cfg.PackageReplacements :
            ~(cfg.OnlyObfuscateProject /\ standardLibs(TrimSuffix(k, ".")))}}
    \cup (IF DOMAIN cfg.PackageReplacements = {}
          THEN {defaultPatterns(cfg)[i] : i \in 1..Len(defaultPatterns(cfg))} ELSE {})

\* the inner loop of the prefix pass for one pattern, from offset j on
RECURSIVE PatchLoop(_, _, _, _, _, _)
PatchLoop(data, log, j, pclntabSearchEnd, patternBytes, replacement) ==
    IF ~(j < pclntabSearchEnd - Len(patternBytes)) THEN [data |-> data, log |-> log]
    ELSE IF /\ Slice(data, j, j + Len(patternBytes)) = patternBytes
            /\ isSafeFunctionNamePrefix(data, j, patternBytes)
            /\ (Len(replacement) = Len(patternBytes) \/ Len(replacement) < Len(patternBytes))
    THEN PatchLoop(CopyAt(data, j, replacement),
                   log \cup {[pos |-> j, pattern |-> patternBytes, written |-> replacement,
                              prev |-> IF j > 0 THEN data[j] ELSE -1,
                              next |-> data[j + Len(patternBytes) + 1]]},
                   j + 1, pclntabSearchEnd, patternBytes, replacement)
    ELSE PatchLoop(data, log, j + 1, pclntabSearchEnd, patternBytes, replacement)

\* the table is filled and then patched entry by entry; an entry's replacement is
\* drawn here when the entry is reached, the generator reading usedNames only
RECURSIVE PatternLoop(_, _, _, _, _)
PatternLoop(items, i, states, pclntabOffset, pclntabSearchEnd) ==
    IF i > Len(items) THEN states
    ELSE LET patternBytes == Bytes(items[i].pattern)
         IN  PatternLoop(items, i + 1,
                UNION {{LET r == PatchLoop(st.data, st.log, pclntabOffset, pclntabSearchEnd,
                                           patternBytes, Bytes(g.name))
                        IN  [data |-> r.data, log |-> r.log, usedNames |-> g.usedNames]
                        : g \in IF items[i].regenerate
                                THEN GeneratePackageName(st.usedNames, items[i].pattern,
                                                         Len(items[i].pattern))
                                ELSE {[name |-> items[i].replacement, usedNames |-> st.usedNames]}}
                       : st \in states},
                pclntabOffset, pclntabSearchEnd)

\* the inner loop of the path pass for one path, from offset j on
RECURSIVE PathLoop(_, _, _, _)
PathLoop(data, j, originalPath, replacementPath) ==
    IF ~(j < Len(data) - Len(originalPath)) THEN data
    ELSE IF /\ Slice(data, j, j + Len(originalPath)) = Bytes(originalPath)
            /\ isSafePackagePathReplacement(data, j, Len(originalPath))
            /\ Len(replacementPath) <= Len(originalPath)
    THEN PathLoop([i \in 1..Len(data) |->
                      IF i > j /\ i <= j + Len(replacementPath)
                      THEN Bytes(replacementPath)[i - j]
                      ELSE IF i > j + Len(replacementPath) /\ i <= j + Len(originalPath)
                      THEN 0
                      ELSE data[i]],
                  j + Len(originalPath), originalPath, replacementPath)
    ELSE PathLoop(data, j + 1, originalPath, replacementPath)

replaceProjectPackagePathsGlobal(data, cfg) ==
    LET RECURSIVE Range(_, _, _)
        Range(d, order, i) ==
            IF i > Len(order) THEN d
            ELSE LET originalPath == TrimSuffix(order[i], ".")
                 IN  IF standardLibsGlobal(originalPath) \/ ~Contains(originalPath, "/")
                     THEN Range(d, order, i + 1)
                     ELSE Range(PathLoop(d, 0, originalPath,
                                         TrimSuffix(cfg.PackageReplacements[order[i]], ".")),
                                order, i + 1)
    IN  {Range(data, order, 1) : order \in Perms(DOMAIN cfg.PackageReplacements)}

obfuscateFunctionNames(data, pclntabOffset, cfg) ==
    LET window == pclntabOffset + 10 * 1024 * 1024
        pclntabSearchEnd == IF window > Len(data) THEN Len(data) ELSE window
        tables == {PatternItems(cfg, order) : order \in Perms(DOMAIN cfg.PackageReplacements)}
        afterPrefix ==
            UNION {PatternLoop(items, 1, {[data |-> data, log |-> {}, usedNames |-> {}]},
                               pclntabOffset, pclntabSearchEnd) : items \in tables}
    IN  UNION {{[data |-> d, log |-> st.log] : d \in replaceProjectPackagePathsGlobal(st.data, cfg)}
               : st \in afterPrefix}

modifyPclntab(data, offset, cfg) ==
    IF offset < 0 \/ offset + 4 > Len(data)
    THEN {[newData |-> data, modified |-> FALSE, err |-> TRUE, log |-> {}]}
    ELSE IF cfg.DisablePclntab
    THEN {[newData |-> data, modified |-> FALSE, err |-> FALSE, log |-> {}]}
    ELSE IF cfg.RemoveFuncNames
    THEN {[newData |-> r.data, modified |-> TRUE, err |-> FALSE, log |-> r.log] :
            r \in obfuscateFunctionNames(data, offset, cfg)}
    ELSE {[newData |-> data, modified |-> FALSE, err |-> FALSE, log |-> {}]}

(***************************************************************************)
(* The format handlers.  The container parser hands over an error or the   *)
(* section table; a section is its name, file offset and bytes.            *)
(***************************************************************************)
\* the pclntab lookup the three handlers share: candidate sections, then the whole file
processSections(candidates, data, parsed, cfg) ==
    IF parsed.err
    THEN {[newData |-> data, modified |-> FALSE, err |-> TRUE, log |-> {}]}
    ELSE LET hits == {k \in 1..Len(parsed.Sections) :
                        /\ parsed.Sections[k].Name \in candidates
                        /\ findPclntabMagic(parsed.Sections[k].Data) >= 0}
             first == CHOOSE k \in hits : \A h \in hits : k <= h
         IN  IF hits # {}
             THEN modifyPclntab(data, parsed.Sections[first].Offset
                                        + findPclntabMagic(parsed.Sections[first].Data), cfg)
             ELSE IF findPclntabMagic(data) < 0
             THEN {[newData |-> data, modified |-> FALSE, err |-> FALSE, log |-> {}]}
             ELSE modifyPclntab(data, findPclntabMagic(data), cfg)

processELF(data, parsed, cfg) == processSections({".gopclntab", ".data.rel.ro"}, data, parsed, cfg)

processPE(data, parsed, cfg) == processSections({".rdata", ".data"}, data, parsed, cfg)

processMachO(data, parsed, cfg) == processSections({"__gopclntab", "__data"}, data, parsed, cfg)

\* what elf.NewFile / pe.NewFile / macho.NewFile may hand over for the artifact
ParseOutcomes(data) ==
    {[err |-> TRUE, Sections |-> << >>], [err |-> FALSE, Sections |-> << >>]}
    \cup {[err |-> FALSE,
           Sections |-> <<[Name |-> n, Offset |-> 4, Data |-> Slice(data, 4, Len(data))]>>] :
            n \in {".gopclntab", ".rdata", "__gopclntab", ".text"}}

(***************************************************************************)
(* postProcessBinary.                                                      *)
(***************************************************************************)
\* variant that overwrites the artifact before it writes the backup
postProcessWritesOverwriteFirst(data, patched) ==
    <<[file |-> "outputBin", bytes |-> patched],
      [file |-> "outputBin.backup", bytes |-> data]>>

\* variant that writes the patched buffer to the new file and leaves the artifact
postProcessWritesToNewFile(data, patched) ==
    <<[file |-> "outputBin.backup", bytes |-> patched],
      [file |-> "outputBin", bytes |-> data]>>

\* the writes of the `if modified` branch, in order
postProcessWrites(data, patched) ==
    <<[file |-> "outputBin.backup", bytes |-> data],
      [file |-> "outputBin", bytes |-> patched]>>

\* os.WriteFile: done, refused before the file is touched, or cut short
WriteOutcomes(old, bytes) ==
    {[file |-> bytes, err |-> FALSE], [file |-> old, err |-> TRUE]}
    \cup {[file |-> SubSeq(bytes, 1, k), err |-> TRUE] : k \in {0, Len(bytes) \div 2}}

\* the artifacts and link configurations the phase may be given
Headers ==
    [ELF |-> <<127, 69, 76, 70>>, PE |-> <<77, 90, 144, 0>>,
     MachO |-> <<207, 250, 237, 254>>, Script |-> <<35, 33, 47, 98>>]

Containers ==
    {Headers.ELF \o go12magic, Headers.ELF \o go116magic, Headers.PE \o go118magic,
     Headers.MachO \o go120magic, Headers.ELF, Headers.Script \o go12magic}

PrevBytes == {0, 1} \cup {Ord[c] : c \in {" ", "-", ".", "/", "1", "_", "a"}}

NextBytes == {0} \cup {Ord[c] : c \in {"(", "R"}}

Words == {"main.", "os.", "a/b.", "."}

Artifacts ==
    {c \o <<p>> \o Bytes(w) \o <<n>> : c \in Containers, p \in PrevBytes, w \in Words, n \in NextBytes}
    \cup {Headers.ELF \o go12magic \o <<0>> \o Bytes("main.Run") \o <<0>>
            \o Bytes("submain.Old") \o <<0>>}
    \cup {<<127, 69>>}
    \* a project path after a system path fragment, a project path ahead of the pclntab
    \cup {Headers.ELF \o go12magic \o Bytes("/usr/lib/a/b") \o <<0>>,
          Headers.ELF \o <<0>> \o Bytes("a/b") \o <<0>> \o go12magic \o <<0>>}

Tables ==
    {EmptyMap,
     "main" :> "abcd",
     "main" :> "x",
     "main." :> "toolong.",
     "os" :> "io" @@ "a/b" :> "z",
     "" :> "x" @@ "." :> "yy"}

LinkConfigs ==
    [PackageReplacements : Tables, OnlyObfuscateProject : BOOLEAN,
     DisablePclntab : BOOLEAN, RemoveFuncNames : BOOLEAN]

SrcIdle ==
    /\ Config = [ObfuscateExported |-> FALSE]
    /\ phase = "idle"
    /\ protectedNames = {}
    /\ packageNames = {}
    /\ importAliasMapping = EmptyMap
    /\ fileScopes = EmptyMap
    /\ objectMapping = EmptyMap
    /\ funcMapping = EmptyMap
    /\ varMapping = EmptyMap
    /\ namingCounter = 0
    /\ output = EmptyMap
    /\ rewritten = {}

InitBin ==
    /\ SrcIdle
    /\ TreeIdle
    /\ CryptIdle
    /\ lo \in [config : LinkConfigs]
    /\ origData \in Artifacts
    /\ artifact = origData
    /\ backup = NoFile
    /\ newData = << >>
    /\ modified = FALSE
    /\ patches = {}
    /\ pending = << >>
    /\ bpc = "read"

\* postProcessBinary up to the `if modified` test: read, sniff, dispatch, patch in memory
ReadAndProcess ==
    /\ bpc = "read"
    /\ \E readErr \in BOOLEAN :
          IF readErr \/ detectBinaryFormat(artifact) = "Unknown"
          THEN /\ bpc' = "error"
               /\ UNCHANGED <<newData, modified, patches, pending>>
          ELSE \E parsed \in ParseOutcomes(artifact) :
               \E r \in CASE detectBinaryFormat(artifact) = "ELF" ->
                               processELF(artifact, parsed, lo.config)
                          [] detectBinaryFormat(artifact) = "PE" ->
                               processPE(artifact, parsed, lo.config)
                          [] OTHER -> processMachO(artifact, parsed, lo.config) :
                  IF r.err
                  THEN /\ bpc' = "error"
                       /\ UNCHANGED <<newData, modified, patches, pending>>
                  ELSE /\ newData' = r.newData
                       /\ modified' = r.modified
                       /\ patches' = r.log
                       /\ pending' = IF r.modified THEN postProcessWrites(artifact, r.newData)
                                     ELSE << >>
                       /\ bpc' = IF r.modified THEN "write" ELSE "done"
    /\ UNCHANGED <<lo, origData, artifact, backup>>
    /\ UNCHANGED <<srcVars, treeVars, cryptVars>>

\* os.WriteFile(backupPath, ...)
WriteBackup ==
    /\ bpc = "write"
    /\ pending # << >>
    /\ Head(pending).file = "outputBin.backup"
    /\ \E w \in WriteOutcomes(backup, Head(pending).bytes) :
          /\ backup' = w.file
          /\ pending' = IF w.err THEN << >> ELSE Tail(pending)
          /\ bpc' = IF w.err THEN "error" ELSE IF Tail(pending) = << >> THEN "done" ELSE "write"
    /\ UNCHANGED <<lo, origData, artifact, newData, modified, patches>>
    /\ UNCHANGED <<srcVars, treeVars, cryptVars>>

\* os.WriteFile(lo.outputBin, ...)
WriteOutputBin ==
    /\ bpc = "write"
    /\ pending # << >>
    /\ Head(pending).file = "outputBin"
    /\ \E w \in WriteOutcomes(artifact, Head(pending).bytes) :
          /\ artifact' = w.file
          /\ pending' = IF w.err THEN << >> ELSE Tail(pending)
          /\ bpc' = IF w.err THEN "error" ELSE IF Tail(pending) = << >> THEN "done" ELSE "write"
    /\ UNCHANGED <<lo, origData, backup, newData, modified, patches>>
    /\ UNCHANGED <<srcVars, treeVars, cryptVars>>

NextBin ==
    \/ ReadAndProcess
    \/ WriteBackup
    \/ WriteOutputBin

SpecBin == InitBin /\ [][NextBin]_vars

(***************************************************************************)
(* Properties of the binary phase.                                         *)
(***************************************************************************)
IsPrintableByte(b) == b >= 32 /\ b <= 126

\* the user's replacement for the pattern is shorter than the pattern
UserReplacementShorter(cfg, pattern) ==
    \E k \in DOMAIN cfg.PackageReplacements :
        Bytes(WithDot(k)) = pattern /\ Len(WithDot(cfg.PackageReplacements[k])) < Len(pattern)

\* C5: every write of the prefix pass has exactly the length of the prefix it
\* matched, whatever replacement table the user supplied.
C5_EqualLengthWrites ==
    \A p \in patches : Len(p.written) = Len(p.pattern)

\* C5 witness: the user's replacement for a prefix is shorter than the prefix, and
\* an occurrence of that prefix was patched.
C5_Witness ==
    /\ \E p \in patches : UserReplacementShorter(lo.config, p.pattern)
    /\ newData # origData

\* C6 (as claimed): an occurrence is patched only if the byte before it is a null
\* byte or another non-printable byte; never when a printable character precedes it.
C6_PatchedOnlyAfterNonPrintable ==
    \A p \in patches : ~IsPrintableByte(p.prev)

\* C7 (as claimed): the byte that follows a patched occurrence is a letter or a null
\* byte, also when a null or non-printable byte precedes the occurrence.
C7_PatchedOnlyBeforeLetterOrNull ==
    \A p \in patches : p.next = 0 \/ IsLetterByte(p.next)

\* the occurrences of a configured prefix in the artifact, inside the window, that a
\* null byte precedes and a letter follows
NullBoundedOccurrences ==
    {occ \in [pos : 1..Len(origData), pattern : ConfiguredPatterns(lo.config)] :
        /\ occ.pos >= findPclntabMagic(origData)
        /\ occ.pos + Len(occ.pattern) < Len(origData)
        /\ Slice(origData, occ.pos, occ.pos + Len(occ.pattern)) = Bytes(occ.pattern)
        /\ origData[occ.pos] = 0
        /\ IsLetterByte(origData[occ.pos + Len(occ.pattern) + 1])}

\* C8: an occurrence preceded by a letter, digit, underscore, hyphen or dot is never
\* patched by the prefix pass, and once the pass ran every occurrence of a configured
\* prefix preceded by a null byte and followed by a letter has been patched.
C8_IdentifierTailSkippedNullBoundedPatched ==
    /\ \A p \in patches :
          ~(\/ IsLetterByte(p.prev)
            \/ IsDigitByte(p.prev)
            \/ p.prev \in {Ord["_"], Ord["-"], Ord["."]})
    /\ modified =>
          \A occ \in NullBoundedOccurrences :
              \E p \in patches : p.pos = occ.pos /\ p.pattern = Bytes(occ.pattern)

\* C8 witness: "main." after a null byte and before a letter was patched while
\* "main." inside "submain.Old" kept its bytes.
C8_Witness ==
    /\ modified
    /\ \E p \in patches :
          p.pattern = Bytes("main.") /\ p.prev = 0 /\ IsLetterByte(p.next) /\ p.written # p.pattern
    /\ \E j \in 1..Len(origData) :
          /\ j + 5 < Len(origData)
          /\ Slice(origData, j, j + 5) = Bytes("main.")
          /\ IsLetterByte(origData[j])
          /\ Slice(newData, j, j + 5) = Bytes("main.")
          /\ \A p \in patches : p.pos # j

\* C9 (as claimed): the bytes of the artifact at outputBin are never changed.
C9_ArtifactNeverChanged ==
    artifact = origData

\* C9 (amended): when the phase returns without error the artifact at outputBin holds
\* the patched buffer, written over it in place, and the new file outputBin.backup
\* holds the unmodified bytes; when nothing was to be modified no file is written.
C9_ArtifactOverwrittenInPlace ==
    bpc = "done" =>
        IF modified
        THEN artifact = newData /\ backup = origData
        ELSE artifact = origData /\ backup = NoFile

\* C9 witness: the phase returned after patching, and the artifact differs from
\* the bytes it was given.
C9_Witness ==
    /\ bpc = "done"
    /\ modified
    /\ patches # {}
    /\ artifact # origData
    /\ artifact = newData

\* C10: whenever the artifact differs from the bytes the phase was given, the
\* backup file holds exactly those bytes; so a backup write that failed left the
\* artifact as it was.
C10_BackupBeforeOverwrite ==
    /\ artifact # origData => backup = origData
    /\ (bpc = "error" /\ backup # origData) => artifact = origData

\* C10 witness: the artifact holds patched bytes and the backup the original ones;
\* the bytes differ at an offset.
C10_Witness ==
    /\ artifact = newData
    /\ backup = origData
    /\ \E i \in 1..Len(origData) : artifact[i] # backup[i]

(***************************************************************************)
(* String encryption: encryptString and the decrypt function it generates. *)
(***************************************************************************)
MaxText == 4        \* bytes of a string handed to encryptString
MaxKey == 2         \* bytes of o.encryptionKey

\* b ^ keyByte on byte values: the weight of bit n where the bytes differ in it
XorBits(a, b, n) ==
    IF (a \div 2^n) % 2 = (b \div 2^n) % 2 THEN 0 ELSE 2^n

Xor(a, b) ==
    XorBits(a, b, 0) + XorBits(a, b, 1) + XorBits(a, b, 2) + XorBits(a, b, 3)
    + XorBits(a, b, 4) + XorBits(a, b, 5) + XorBits(a, b, 6) + XorBits(a, b, 7)

\* the alphabet of base64.StdEncoding
encodeStd == "ABCDEFGHIJKLMNOPQRSTUVWXYZabcdefghijklmnopqrstuvwxyz0123456789+/"

\* base64.StdEncoding.EncodeToString
RECURSIVE EncodeToString(_)
EncodeToString(src) ==
    LET ch(v) == CharAt(encodeStd, v + 1)
    IN  IF Len(src) = 0 THEN ""
        ELSE IF Len(src) = 1
        THEN ch(src[1] \div 4) \o ch((src[1] % 4) * 16) \o "=="
        ELSE IF Len(src) = 2
        THEN ch(src[1] \div 4) \o ch((src[1] % 4) * 16 + src[2] \div 16)
             \o ch((src[2] % 16) * 4) \o "="
        ELSE ch(src[1] \div 4) \o ch((src[1] % 4) * 16 + src[2] \div 16)
             \o ch((src[2] % 16) * 4 + src[3] \div 64) \o ch(src[3] % 64)
             \o EncodeToString(SubSeq(src, 4, Len(src)))

\* base64.StdEncoding.DecodeString: the bytes, or err for a malformed argument
RECURSIVE DecodeQuanta(_)
DecodeQuanta(s) ==
    LET v(i) == IndexIn(encodeStd, CharAt(s, i)) - 1
    IN  IF Len(s) = 0 THEN << >>
        ELSE IF Len(s) = 4 /\ SubSeq(s, 3, 4) = "=="
        THEN <<v(1) * 4 + v(2) \div 16>>
        ELSE IF Len(s) = 4 /\ CharAt(s, 4) = "="
        THEN <<v(1) * 4 + v(2) \div 16, (v(2) % 16) * 16 + v(3) \div 4>>
        ELSE <<v(1) * 4 + v(2) \div 16, (v(2) % 16) * 16 + v(3) \div 4, (v(3) % 4) * 64 + v(4)>>
             \o DecodeQuanta(SubSeq(s, 5, Len(s)))

DecodeString(s) ==
    LET n == Len(s)
        pad == IF n >= 2 /\ SubSeq(s, n - 1, n) = "==" THEN 2
               ELSE IF n >= 1 /\ CharAt(s, n) = "=" THEN 1 ELSE 0
        wellFormed == /\ n % 4 = 0
                      /\ \A i \in 1..(n - pad) : CharAt(s, i) \in CharsOf(encodeStd)
    IN  IF wellFormed THEN [err |-> FALSE, data |-> DecodeQuanta(s)]
        ELSE [err |-> TRUE, data |-> << >>]

\* variant that XORs every byte with the first key byte
encryptStringFirstKeyByte(key, textBytes) ==
    EncodeToString([i \in 1..Len(textBytes) |-> Xor(textBytes[i], key[1])])

\* encryptString: XOR with key[i%len(key)], then base64
encryptString(key, textBytes) ==
    EncodeToString([i \in 1..Len(textBytes) |-> Xor(textBytes[i], key[((i - 1) % Len(key)) + 1])])

\* the value of a decimal literal
RECURSIVE DecimalValue(_)
DecimalValue(lit) ==
    IF Len(lit) = 0 THEN 0
    ELSE 10 * DecimalValue(SubSeq(lit, 1, Len(lit) - 1))
         + IndexIn("0123456789", CharAt(lit, Len(lit))) - 1

\* generateDecryptFunction: the elements of the []byte{...} literal it prints with %d
generateDecryptFunction(key) == [i \in 1..Len(key) |-> ToString(key[i])]

\* the function generateDecryptFunction prints, run on `arg`
decryptFunc(keyLiteral, arg) ==
    LET dec == DecodeString(arg)
        key == [i \in 1..Len(keyLiteral) |-> DecimalValue(keyLiteral[i])]
    IN  IF dec.err THEN << >>
        ELSE [i \in 1..Len(dec.data) |-> Xor(dec.data[i], key[((i - 1) % Len(key)) + 1])]

TextBytes == {0, 97, 255}
KeyBytes == {0, 107, 255}

SeqsUpTo(S, n) == UNION {[1..k -> S] : k \in 0..n}

InitCrypt ==
    /\ SrcIdle
    /\ BinIdle
    /\ TreeIdle
    /\ encryptionKey \in SeqsUpTo(KeyBytes, MaxKey) \ {<< >>}
    /\ text \in SeqsUpTo(TextBytes, MaxText)
    /\ encrypted = ""
    /\ decrypted = << >>
    /\ cpc = "plain"

\* the rewrite calls encryptString on a literal
EncryptString ==
    /\ cpc = "plain"
    /\ encrypted' = encryptString(encryptionKey, text)
    /\ cpc' = "encrypted"
    /\ UNCHANGED <<encryptionKey, text, decrypted>>
    /\ UNCHANGED <<srcVars, binVars, treeVars>>

\* the rewritten program calls the generated function on the literal
RunDecryptFunc ==
    /\ cpc = "encrypted"
    /\ decrypted' = decryptFunc(generateDecryptFunction(encryptionKey), encrypted)
    /\ cpc' = "decrypted"
    /\ UNCHANGED <<encryptionKey, text, encrypted>>
    /\ UNCHANGED <<srcVars, binVars, treeVars>>

NextCrypt ==
    \/ EncryptString
    \/ RunDecryptFunc

SpecCrypt == InitCrypt /\ [][NextCrypt]_vars

\* C13: for every byte string and every non-empty key, the generated decrypt
\* function applied to the result of encryptString returns the byte string
C13_DecryptInvertsEncrypt == cpc = "decrypted" => decrypted = text

\* a two-byte key with different bytes has decrypted a text longer than the key
\* whose encoding carries padding
C13_Witness ==
    /\ cpc = "decrypted"
    /\ Len(encryptionKey) = 2 /\ encryptionKey[1] # encryptionKey[2]
    /\ Len(text) = 4 /\ 255 \in {text[i] : i \in 1..4}
    /\ decrypted = text
    /\ SubSeq(encrypted, Len(encrypted) - 1, Len(encrypted)) = "=="

(***************************************************************************)
(* The text passes of obfuscateFileWithMapping.  A source text is the      *)
(* sequence of its lines (strings.Split(source, "\n")).                    *)
(***************************************************************************)
\* strings.TrimSpace on spaces and tabs
RECURSIVE TrimSpace(_)
TrimSpace(s) ==
    IF Len(s) = 0 THEN s
    ELSE IF CharAt(s, 1) \in {" ", "\t"} THEN TrimSpace(SubSeq(s, 2, Len(s)))
    ELSE IF CharAt(s, Len(s)) \in {" ", "\t"} THEN TrimSpace(SubSeq(s, 1, Len(s) - 1))
    ELSE s

\* strings.Index, from 0; -1 when absent
Index(s, sub) ==
    IF Contains(s, sub)
    THEN (CHOOSE i \in 1..(Len(s) - Len(sub) + 1) :
            /\ SubSeq(s, i, i + Len(sub) - 1) = sub
            /\ \A k \in 1..(i - 1) : SubSeq(s, k, k + Len(sub) - 1) # sub) - 1
    ELSE -1

\* strings.Replace(s, old, new, 1)
Replace1(s, old, new) ==
    IF Index(s, old) < 0 THEN s
    ELSE SubSeq(s, 1, Index(s, old)) \o new \o SubSeq(s, Index(s, old) + Len(old) + 1, Len(s))

\* strings.ToLower on the letters A..Z; the string is mapped half by half
ToLower(s) ==
    LET RECURSIVE Low(_, _)
        Low(a, b) ==
            IF a > b THEN ""
            ELSE IF a = b
            THEN (IF CharAt(s, a) \in UpperLetters
                  THEN CharAt("abcdefghijklmnopqrstuvwxyz",
                              IndexIn("ABCDEFGHIJKLMNOPQRSTUVWXYZ", CharAt(s, a)))
                  ELSE CharAt(s, a))
            ELSE Low(a, (a + b) \div 2) \o Low((a + b) \div 2 + 1, b)
    IN  Low(1, Len(s))

\* the character that opens and closes a raw string literal
Backquote == SubSeq("`'", 1, 1)

\* o.decryptFuncName, drawn once by New
decryptFuncName == "Dk"

shouldKeepComment(commentText) ==
    \/ HasPrefix(commentText, "//go:")
    \/ HasPrefix(commentText, "// +build")
    \/ HasPrefix(commentText, "//+build")

platformKeywords ==
    {"windows", "linux", "darwin", "freebsd", "openbsd", "netbsd", "dragonfly", "solaris",
     "android", "aix", "386", "amd64", "arm", "arm64", "mips", "mips64", "ppc64",
     "ppc64le", "s390x", "wasm"}

\* hasPlatformSpecificBuildTag over node.Comments
hasPlatformSpecificBuildTag(comments) ==
    \E i \in 1..Len(comments) :
        /\ \/ HasPrefix(comments[i], "//go:build")
           \/ HasPrefix(comments[i], "// +build")
           \/ HasPrefix(comments[i], "//+build")
        /\ \E keyword \in platformKeywords : Contains(ToLower(comments[i]), keyword)

\* encryptStringsInAST over the string literals of the tree that are neither
\* import paths nor struct tags
encryptStringsInAST(lits) ==
    \E i \in 1..Len(lits) : Len(lits[i]) > 2 /\ ~HasPrefix(lits[i], Backquote)

\* the call encryptStringsInSource puts in place of a quoted string
DecryptCall(key, strContent) ==
    decryptFuncName \o "(\"" \o encryptString(key, Bytes(strContent)) \o "\")"

\* encryptStringsInSource: the scan of one line, from offset j.  Only a backslash,
\* a single quote or a double quote changes what the scan holds, so the scan moves
\* from j straight to the next of these bytes
RECURSIVE ScanLine(_, _, _, _, _, _, _, _)
ScanLine(key, line, j, newLine, inString, inRune, escaped, stringStart) ==
    IF j >= Len(line) THEN newLine
    ELSE IF escaped
    THEN ScanLine(key, line, j + 1, newLine, inString, inRune, FALSE, stringStart)
    ELSE LET special == {k \in j..(Len(line) - 1) : CharAt(line, k + 1) \in {"\\", "'", "\""}}
         IN  IF special = {} THEN newLine
             ELSE LET k == CHOOSE x \in special : \A y \in special : x <= y
                      ch == CharAt(line, k + 1)
                  IN  IF ch = "\\"
                      THEN ScanLine(key, line, k + 1, newLine, inString, inRune, TRUE, stringStart)
                      ELSE IF ch = "'" /\ ~inString
                      THEN ScanLine(key, line, k + 1, newLine, inString, ~inRune, FALSE, stringStart)
                      ELSE IF ch = "\"" /\ ~inRune
                      THEN IF ~inString
                           THEN ScanLine(key, line, k + 1, newLine, TRUE, inRune, FALSE, k)
                           ELSE LET strWithQuotes == SubSeq(line, stringStart + 1, k + 1)
                                    strContent == SubSeq(strWithQuotes, 2, Len(strWithQuotes) - 1)
                                    replaced ==
                                        IF /\ stringStart >= 0
                                           /\ Len(strWithQuotes) > 4
                                           /\ Len(strContent) > 2
                                           /\ ~Contains(strContent, "\\")
                                        THEN Replace1(newLine, strWithQuotes,
                                                      DecryptCall(key, strContent))
                                        ELSE newLine
                                IN  ScanLine(key, line, k + 1, replaced, FALSE, inRune, FALSE, -1)
                      ELSE ScanLine(key, line, k + 1, newLine, inString, inRune, FALSE, stringStart)

\* encryptStringsInSource: inImportBlock when the loop over the lines reaches the
\* i-th line: an "import (" line lies before it and no ")" line after that one
inImportBlockAt(lines, i) ==
    \E k \in 1..(i - 1) :
        /\ HasPrefix(TrimSpace(lines[k]), "import (")
        /\ \A m \in (k + 1)..(i - 1) : TrimSpace(lines[m]) # ")"

\* encryptStringsInSource: inConstBlock when the loop reaches the i-th line: a
\* "const (" line lies before it and no ")" line after that one, save the ")" lines
\* the import block took
inConstBlockAt(lines, i) ==
    \E k \in 1..(i - 1) :
        /\ HasPrefix(TrimSpace(lines[k]), "const (")
        /\ \A m \in (k + 1)..(i - 1) :
              TrimSpace(lines[m]) = ")" => inImportBlockAt(lines, m)

\* encryptStringsInSource: the body of the loop over the lines, result[i] for one line
SourceLine(key, line, inImportBlock, inConstBlock) ==
    LET trimmed == TrimSpace(line)
    IN  IF HasPrefix(trimmed, "import (") THEN line
        ELSE IF inImportBlock /\ trimmed = ")" THEN line
        ELSE IF HasPrefix(trimmed, "const (") THEN line
        ELSE IF inConstBlock /\ trimmed = ")" THEN line
        ELSE IF \/ inImportBlock \/ inConstBlock \/ Contains(trimmed, "package ")
                \/ HasPrefix(trimmed, "import ") \/ HasPrefix(trimmed, "const ")
        THEN line
        ELSE IF Contains(line, Backquote) /\ Contains(line, ":") THEN line
        ELSE ScanLine(key, line, 0, line, FALSE, FALSE, FALSE, -1)

encryptStringsInSource(key, lines) ==
    [i \in 1..Len(lines) |->
        SourceLine(key, lines[i], inImportBlockAt(lines, i), inConstBlockAt(lines, i))]

\* ensureBase64ImportInSource
ensureBase64ImportInSource(lines) ==
    LET quoted == "\"encoding/base64\""
        isBlock(i) == HasPrefix(TrimSpace(lines[i]), "import (")
        isSingle(i) == HasPrefix(TrimSpace(lines[i]), "import ")
        imports == {i \in 1..Len(lines) : isBlock(i) \/ isSingle(i)}
        packages == {i \in 1..Len(lines) : HasPrefix(TrimSpace(lines[i]), "package ")}
        first(S) == CHOOSE i \in S : \A k \in S : i <= k
        before(i) == SubSeq(lines, 1, i - 1)
        after(i) == SubSeq(lines, i + 1, Len(lines))
    IN  IF \E i \in 1..Len(lines) : Contains(lines[i], quoted) THEN lines
        ELSE IF imports # {}
        THEN LET i == first(imports)
             IN  IF isBlock(i)
                 THEN before(i) \o <<lines[i], "\t" \o quoted>> \o after(i)
                 ELSE before(i)
                      \o <<"import (", "\t" \o quoted, SubSeq(lines[i], 8, Len(lines[i])), ")">>
                      \o after(i)
        ELSE IF packages # {}
        THEN LET i == first(packages)
             IN  SubSeq(lines, 1, i) \o <<"", "import " \o quoted, "">> \o after(i)
        ELSE lines

\* the lines generateDecryptFunction prints: the header, the line holding a
\* string literal, and the closing brace
decryptFunctionLines ==
    <<"func " \o decryptFuncName \o "(encrypted string) string {", "\t\treturn \"\"", "}">>

(***************************************************************************)
(* Files.  A parsed file (an ast.File) is its comments ahead of the package*)
(* clause, its package name, the lines of its declarations outside         *)
(* functions with the string literals they hold, and its function          *)
(* declarations.  format.Node prints such a tree; parser.ParseFile reads   *)
(* the text back.                                                          *)
(***************************************************************************)
JunkStmts(r) == <<"\tl" \o r \o " := 42">>

FuncLines(fn) ==
    fn.docComments \o <<"func " \o fn.name \o "() {">> \o fn.junk
    \o [i \in 1..fn.stmts |-> "\tstep()"] \o <<"}">>

RECURSIVE AllFuncLines(_)
AllFuncLines(funcs) ==
    IF funcs = << >> THEN << >> ELSE FuncLines(Head(funcs)) \o AllFuncLines(Tail(funcs))

\* format.Node
Format(node) ==
    node.comments \o <<"package " \o node.pkg>> \o node.code \o AllFuncLines(node.funcs)

FuncDecl(name, doc, stmts) ==
    [name |-> name, Doc |-> doc, docComments |-> doc, stmts |-> stmts, junk |-> << >>]

NodeKinds == {"plain", "generated", "tagged", "raw", "rawlines", "directive", "empty"}

\* the trees of the project files
Node(kind, pkg, fname) ==
    CASE kind = "plain" ->
           [pkg |-> pkg, comments |-> << >>,
            code |-> <<"var _ = \"hello\"">>, lits |-> <<"\"hello\"">>,
            funcs |-> <<FuncDecl(fname, <<"// runs the steps">>, 3)>>]
      [] kind = "generated" ->
           [pkg |-> pkg, comments |-> <<"// Code generated by stringer. DO NOT EDIT.">>,
            code |-> <<"var _ = \"made\"">>, lits |-> <<"\"made\"">>,
            funcs |-> <<FuncDecl(fname, << >>, 1)>>]
      [] kind = "tagged" ->
           [pkg |-> pkg, comments |-> <<"//go:build linux">>,
            code |-> <<"var _ = \"plat\"">>, lits |-> <<"\"plat\"">>,
            funcs |-> << >>]
      [] kind = "raw" ->
           [pkg |-> pkg, comments |-> << >>,
            code |-> <<"var _ = " \o Backquote \o "say \"hello\"" \o Backquote>>,
            lits |-> <<Backquote \o "say \"hello\"" \o Backquote>>,
            funcs |-> << >>]
      [] kind = "rawlines" ->
           [pkg |-> pkg, comments |-> << >>,
            code |-> <<"var _ = " \o Backquote, "say \"hello\"", Backquote>>,
            lits |-> <<Backquote \o "\nsay \"hello\"\n" \o Backquote>>,
            funcs |-> << >>]
      [] kind = "directive" ->
           [pkg |-> pkg, comments |-> << >>,
            code |-> << >>, lits |-> << >>,
            funcs |-> <<FuncDecl(fname, <<"//go:noinline">>, 3)>>]
      [] kind = "empty" ->
           [pkg |-> pkg, comments |-> << >>,
            code |-> << >>, lits |-> << >>,
            funcs |-> << >>]

PackageNames == {"p", "q"}

ParsedNodes == {Node(k, pkg, fname) : k \in NodeKinds, pkg \in PackageNames, fname \in Names}

\* the text of a file the parser rejects
BrokenText == <<"package p", "func {">>

\* parser.ParseFile on the text of a file
ParseFile(lines) ==
    LET match == {n \in ParsedNodes : Format(n) = lines}
    IN  IF match = {} THEN [err |-> TRUE, node |-> Node("empty", "", "")]
        ELSE [err |-> FALSE, node |-> CHOOSE n \in match : TRUE]

Dir(path) == SubSeq(path, 1, Len(path) - Len(Base(path)) - 1)

Join(dir, name) == dir \o "/" \o name

(***************************************************************************)
(* Run over the files of a project.  Paths are relative to o.projectRoot   *)
(* (input tree) and to o.outputDir (output tree).                          *)
(***************************************************************************)
isGeneratedFile(path) ==
    \/ HasSuffix(path, ".pb.go")
    \/ HasSuffix(path, ".gen.go")
    \/ HasSuffix(path, "_generated.go")

\* filepath.Match for a literal pattern or a pattern with one "*"
Match(pattern, name) ==
    IF ~Contains(pattern, "*") THEN pattern = name
    ELSE LET star == Index(pattern, "*")
             pre == SubSeq(pattern, 1, star)
             suf == SubSeq(pattern, star + 2, Len(pattern))
         IN  /\ Len(name) >= Len(pre) + Len(suf)
             /\ HasPrefix(name, pre)
             /\ HasSuffix(name, suf)
             /\ ~Contains(SubSeq(name, Len(pre) + 1, Len(name) - Len(suf)), "/")

\* shouldExcludeFile; the "*/" patterns are not among the configured ones
shouldExcludeFile(cfg, relPath) ==
    \E i \in 1..Len(cfg.ExcludePatterns) :
        LET pattern == cfg.ExcludePatterns[i]
        IN  \/ Match(pattern, relPath)
            \/ Match(pattern, Base(relPath))
            \/ /\ Contains(pattern, "/")
               /\ HasSuffix(pattern, "/*")
               /\ \/ HasPrefix(relPath, TrimSuffix(pattern, "/*") \o "/")
                  \/ relPath = TrimSuffix(pattern, "/*")

isExcluded(cfg, path) == shouldExcludeFile(cfg, path)

\* variant that does not record the files the parser rejects
SkipReasonNoParseError(cfg, file) ==
    IF cfg.SkipGeneratedCode /\ isGeneratedFile(file.path) THEN "Generated code"
    ELSE IF isExcluded(cfg, file.path) THEN "Excluded by pattern"
    ELSE ""

\* Run, phase 1: the reason a file is recorded in o.skippedFiles, "" when it is not
SkipReason(cfg, file) ==
    IF cfg.SkipGeneratedCode /\ isGeneratedFile(file.path) THEN "Generated code"
    ELSE IF isExcluded(cfg, file.path) THEN "Excluded by pattern"
    ELSE IF ParseFile(file.text).err THEN "Parse error"
    ELSE ""

platformSuffixes ==
    <<"_linux", "_windows", "_darwin", "_freebsd", "_openbsd", "_netbsd",
      "_dragonfly", "_solaris", "_plan9", "_aix", "_android", "_ios",
      "_js", "_wasm", "_unix", "_other",
      "_amd64", "_386", "_arm", "_arm64", "_ppc64", "_ppc64le",
      "_mips", "_mipsle", "_mips64", "_mips64le", "_s390x", "_riscv64">>

\* obfuscateFileName: the platform suffix it keeps
PlatformSuffixOf(fileName) ==
    LET nameWithoutExt == TrimSuffix(fileName, ".go")
        hits == {i \in 1..Len(platformSuffixes) : HasSuffix(nameWithoutExt, platformSuffixes[i])}
    IN  IF HasSuffix(fileName, ".go") /\ hits # {}
        THEN platformSuffixes[CHOOSE i \in hits : \A k \in hits : i <= k]
        ELSE ""

\* the GOOS / GOARCH tokens at the end of a file name, all of them
RECURSIVE PlatformTokens(_)
PlatformTokens(nameWithoutExt) ==
    LET hits == {i \in 1..Len(platformSuffixes) : HasSuffix(nameWithoutExt, platformSuffixes[i])}
        ps == platformSuffixes[CHOOSE i \in hits : \A k \in hits : i <= k]
    IN  IF hits = {} THEN ""
        ELSE PlatformTokens(TrimSuffix(nameWithoutExt, ps)) \o ps

\* obfuscateFileName: every result the retry loop and the fallback can produce,
\* with the o.fileNameMapping it leaves
obfuscateFileName(fnm, fileName) ==
    IF fileName \in {"main.go", "go.mod", "go.sum"} THEN {[name |-> fileName, fnm |-> fnm]}
    ELSE IF HasPrefix(fileName, "main_") /\ HasSuffix(fileName, ".go")
    THEN {[name |-> fileName, fnm |-> fnm]}
    ELSE IF fileName \in DOMAIN fnm THEN {[name |-> fnm[fileName], fnm |-> fnm]}
    ELSE LET suffix == PlatformSuffixOf(fileName)
             candidates == {"f" \o r \o suffix \o ".go" : r \in generateRandomString(10)}
             free == candidates \ MapValues(fnm)
             fallback == IF free # candidates
                         THEN {"f" \o ToString(Cardinality(DOMAIN fnm)) \o "_" \o r
                               \o suffix \o ".go" : r \in generateRandomString(6)}
                         ELSE {}
         IN  {[name |-> n, fnm |-> MapPut(fnm, fileName, n)] : n \in free \cup fallback}

\* copyProjectAndBuildMapping: the walk from the i-th file on
RECURSIVE CopyLoop(_, _, _, _, _)
CopyLoop(cfg, files, skipped, i, st) ==
    IF i > Len(files) THEN {st}
    ELSE LET file == files[i]
             renames ==
                 IF /\ cfg.ObfuscateFileNames
                    /\ HasSuffix(file.path, ".go")
                    /\ file.path \notin DOMAIN skipped
                 THEN obfuscateFileName(st.fnm, Base(file.path))
                 ELSE {[name |-> Base(file.path), fnm |-> st.fnm]}
         IN  UNION {CopyLoop(cfg, files, skipped, i + 1,
                             [fnm |-> r.fnm,
                              fm |-> MapPut(st.fm, Join(Dir(file.path), r.name), file.path),
                              out |-> MapPut(st.out, Join(Dir(file.path), r.name), file.text)])
                    : r \in renames}

\* the order in which filepath.Walk visits two files
RECURSIVE StrLess(_, _)
StrLess(a, b) ==
    IF Len(b) = 0 THEN FALSE
    ELSE IF Len(a) = 0 THEN TRUE
    ELSE IF CharAt(a, 1) = CharAt(b, 1)
    THEN StrLess(SubSeq(a, 2, Len(a)), SubSeq(b, 2, Len(b)))
    ELSE Ord[CharAt(a, 1)] < Ord[CharAt(b, 1)]

WalksBefore(p, q) ==
    \/ StrLess(Dir(p), Dir(q))
    \/ Dir(p) = Dir(q) /\ StrLess(Base(p), Base(q))

\* the removal of comments at the head of obfuscateFileWithMapping
removeComments(node) ==
    [node EXCEPT
        !.comments = SelectSeq(node.comments, shouldKeepComment),
        !.funcs = [i \in 1..Len(node.funcs) |->
                      [node.funcs[i] EXCEPT
                          !.Doc = << >>,
                          !.docComments = SelectSeq(node.funcs[i].docComments, shouldKeepComment)]]]

shouldSkipJunkCodeInjection(fn) ==
    \/ fn.name = "init"
    \/ fn.name = "main"
    \/ \E i \in 1..Len(fn.Doc) : HasPrefix(fn.Doc[i], "//go:")
    \/ fn.stmts <= 2

\* applyTransformationsWithScope on the tree of a file: the declared function
\* names are rewritten, then junk statements are put in front of the bodies
transformNode(cfg, node, originalPath) ==
    LET rename(name) ==
            LET id == [name |-> name, typeRef |-> FALSE, role |-> "funcDecl"]
            IN  IF originalPath \in DOMAIN fileScopes
                THEN obfuscateIdentWithScope(fileScopes[originalPath], id)
                ELSE obfuscateIdentLegacy(id)
        renamed == [i \in 1..Len(node.funcs) |->
                      [node.funcs[i] EXCEPT !.name = rename(node.funcs[i].name)]]
        injects(fn) == cfg.InjectJunkCode /\ fn.stmts > 0 /\ ~shouldSkipJunkCodeInjection(fn)
    IN  {[node EXCEPT !.funcs = [i \in 1..Len(renamed) |->
                                    IF injects(renamed[i])
                                    THEN [renamed[i] EXCEPT !.junk = JunkStmts(r)]
                                    ELSE renamed[i]]]
         : r \in generateRandomString(8)}

RECURSIVE AllDocComments(_)
AllDocComments(funcs) ==
    IF funcs = << >> THEN << >> ELSE Head(funcs).docComments \o AllDocComments(Tail(funcs))

\* the `if o.Config.EncryptStrings` block of obfuscateFileWithMapping
encryptFile(cfg, key, added, node, source) ==
    LET packageName == node.pkg
        hadEncryption == encryptStringsInAST(node.lits)
        docComments == AllDocComments(node.funcs)
        hasPlatformBuildTag == hasPlatformSpecificBuildTag(node.comments \o docComments)
        shouldAddDecryptFunc ==
            hadEncryption /\ packageName \notin DOMAIN added /\ ~hasPlatformBuildTag
        withFunc == IF shouldAddDecryptFunc
                    THEN ensureBase64ImportInSource(source) \o <<"">> \o decryptFunctionLines
                    ELSE source
    IN  IF ~cfg.EncryptStrings THEN [text |-> source, added |-> added]
        ELSE [text |-> encryptStringsInSource(key, withFunc),
              added |-> IF shouldAddDecryptFunc THEN MapPut(added, packageName, TRUE)
                        ELSE added]

\* obfuscateFileWithMapping on a file the parser accepts: every text it may write,
\* with the o.decryptFuncAdded it leaves
obfuscateFileWithMapping(cfg, key, added, fm, filePath, node) ==
    LET cleaned == IF cfg.RemoveComments THEN removeComments(node) ELSE node
        originalPath == IF filePath \in DOMAIN fm THEN fm[filePath] ELSE filePath
    IN  {encryptFile(cfg, key, added, n, Format(n)) : n \in transformNode(cfg, cleaned, originalPath)}

\* the files a project may hold: a file name and the kind of its tree, or a
\* text the parser rejects
TreeEntries ==
    {[name |-> "x.go", kind |-> "plain"], [name |-> "x.pb.go", kind |-> "generated"],
     [name |-> "y.go", kind |-> "generated"], [name |-> "conn_linux_amd64.go", kind |-> "tagged"],
     [name |-> "s_linux.go", kind |-> "tagged"], [name |-> "main.go", kind |-> "plain"],
     [name |-> "x_test.go", kind |-> "plain"], [name |-> "bad.go", kind |-> "broken"]}

TextEntries ==
    {[name |-> "x.go", kind |-> "plain"], [name |-> "t_linux.go", kind |-> "tagged"],
     [name |-> "r.go", kind |-> "raw"], [name |-> "m.go", kind |-> "rawlines"],
     [name |-> "d.go", kind |-> "directive"], [name |-> "e.go", kind |-> "empty"]}

FileOf(dir, entry, pkg, fname) ==
    [path |-> Join(dir, entry.name),
     text |-> IF entry.kind = "broken" THEN BrokenText ELSE Format(Node(entry.kind, pkg, fname))]

\* the projects of two files: the second file lies in the directory of the first
\* (same package) or in another directory (same or other package name)
Projects(entries) ==
    LET choices == {c \in [e1 : entries, e2 : entries, d2 : {"a", "b"}, pkg2 : PackageNames] :
                      c.d2 = "a" => (c.pkg2 = "p" /\ c.e1.name # c.e2.name)}
        first(c) == FileOf("a", c.e1, "p", "t")
        second(c) == FileOf(c.d2, c.e2, c.pkg2, "T")
    IN  {IF WalksBefore(second(c).path, first(c).path)
         THEN <<second(c), first(c)>>
         ELSE <<first(c), second(c)>> : c \in choices}

Configs(skip, names, patterns, comments, strings, junk) ==
    [ObfuscateExported : {FALSE}, SkipGeneratedCode : skip, ObfuscateFileNames : names,
     ExcludePatterns : patterns, RemoveComments : comments, EncryptStrings : strings,
     InjectJunkCode : junk]

InitRun(projects, configs) ==
    /\ BinIdle
    /\ Config \in configs
    /\ phase = "walk"
    /\ protectedNames = {}
    /\ packageNames = {}
    /\ importAliasMapping = EmptyMap
    /\ fileScopes = EmptyMap
    /\ objectMapping = EmptyMap
    /\ funcMapping = EmptyMap
    /\ varMapping = EmptyMap
    /\ namingCounter = 0
    /\ output = EmptyMap
    /\ rewritten = {}
    /\ tree \in projects
    /\ skippedFiles = EmptyMap
    /\ fileNameMapping = EmptyMap
    /\ fileMapping = EmptyMap
    /\ outTree = EmptyMap
    /\ decryptFuncAdded = EmptyMap
    /\ visited = {}
    /\ encryptionKey = <<107, 75>>
    /\ text = << >>
    /\ encrypted = ""
    /\ decrypted = << >>
    /\ cpc = "idle"

InitTree ==
    InitRun(Projects(TreeEntries),
            Configs(BOOLEAN, BOOLEAN, {<< >>, <<"*_test.go">>, <<"b/*">>}, {FALSE}, BOOLEAN, {FALSE}))

InitText ==
    InitRun(Projects(TextEntries),
            Configs({FALSE}, {FALSE}, {<< >>}, BOOLEAN, BOOLEAN, BOOLEAN))

\* Run, phases 0 and 1: the files declare no imports and assert no types, so the
\* walk only records the files it skips
WalkProject ==
    /\ phase = "walk"
    /\ skippedFiles' =
          LET skippedIdx == {i \in 1..Len(tree) : SkipReason(Config, tree[i]) # ""}
          IN  [path \in {tree[i].path : i \in skippedIdx} |->
                 SkipReason(Config, tree[CHOOSE i \in skippedIdx : tree[i].path = path])]
    /\ phase' = "analyze"
    /\ UNCHANGED <<Config, protectedNames, packageNames, importAliasMapping, fileScopes,
                   objectMapping, funcMapping, varMapping, namingCounter, output, rewritten>>
    /\ UNCHANGED <<tree, fileNameMapping, fileMapping, outTree, decryptFuncAdded, visited>>
    /\ UNCHANGED <<binVars, cryptVars>>

\* Run, phase 2: buildScopeAnalysis over the files that are not skipped
AnalyzeFiles ==
    /\ phase = "analyze"
    /\ fileScopes' =
          LET idx == {i \in 1..Len(tree) : /\ tree[i].path \notin DOMAIN skippedFiles
                                           /\ ~ParseFile(tree[i].text).err}
              astOf(i) == LET node == ParseFile(tree[i].text).node
                          IN  [decls |-> [n \in {node.funcs[k].name : k \in 1..Len(node.funcs)}
                                            |-> "ObjFunc"],
                               locals |-> {}]
          IN  [path \in {tree[i].path : i \in idx} |->
                 Analyze(path, astOf(CHOOSE i \in idx : tree[i].path = path))]
    /\ phase' = "build"
    /\ UNCHANGED <<Config, protectedNames, packageNames, importAliasMapping,
                   objectMapping, funcMapping, varMapping, namingCounter, output, rewritten>>
    /\ UNCHANGED <<treeVars, binVars, cryptVars>>

\* Run, phase 4: copyProjectAndBuildMapping
CopyFiles ==
    /\ phase = "copy"
    /\ \E res \in CopyLoop(Config, tree, skippedFiles, 1,
                           [fnm |-> fileNameMapping, fm |-> EmptyMap, out |-> EmptyMap]) :
          /\ fileNameMapping' = res.fnm
          /\ fileMapping' = res.fm
          /\ outTree' = res.out
    /\ phase' = "apply"
    /\ UNCHANGED <<Config, protectedNames, packageNames, importAliasMapping, fileScopes,
                   objectMapping, funcMapping, varMapping, namingCounter, output, rewritten>>
    /\ UNCHANGED <<tree, skippedFiles, decryptFuncAdded, visited>>
    /\ UNCHANGED <<binVars, cryptVars>>

\* Run, phase 5: the walk over o.outputDir reaches its next file
ApplyToFile ==
    /\ phase = "apply"
    /\ visited # DOMAIN outTree
    /\ LET path == CHOOSE q \in DOMAIN outTree \ visited :
                      \A r \in DOMAIN outTree \ visited : r = q \/ WalksBefore(q, r)
           parsed == ParseFile(outTree[path])
       IN  /\ visited' = visited \cup {path}
           /\ IF path \in DOMAIN skippedFiles
              THEN UNCHANGED <<outTree, decryptFuncAdded, phase>>
              ELSE IF parsed.err
              THEN phase' = "failed" /\ UNCHANGED <<outTree, decryptFuncAdded>>
              ELSE \E res \in obfuscateFileWithMapping(Config, encryptionKey, decryptFuncAdded,
                                                       fileMapping, path, parsed.node) :
                      /\ outTree' = [outTree EXCEPT ![path] = res.text]
                      /\ decryptFuncAdded' = res.added
                      /\ UNCHANGED phase
    /\ UNCHANGED <<Config, protectedNames, packageNames, importAliasMapping, fileScopes,
                   objectMapping, funcMapping, varMapping, namingCounter, output, rewritten>>
    /\ UNCHANGED <<tree, skippedFiles, fileNameMapping, fileMapping>>
    /\ UNCHANGED <<binVars, cryptVars>>

\* Run returns nil
WalkReturns ==
    /\ phase = "apply"
    /\ visited = DOMAIN outTree
    /\ phase' = "returned"
    /\ UNCHANGED <<Config, protectedNames, packageNames, importAliasMapping, fileScopes,
                   objectMapping, funcMapping, varMapping, namingCounter, output, rewritten>>
    /\ UNCHANGED <<treeVars, binVars, cryptVars>>

NextTree ==
    \/ WalkProject
    \/ AnalyzeFiles
    \/ BuildObfuscationMapsWithScope
    \/ CopyFiles
    \/ ApplyToFile
    \/ WalkReturns

SpecTree == InitTree /\ [][NextTree]_vars

SpecText == InitText /\ [][NextTree]_vars

(***************************************************************************)
(* Properties of the string encryption of a project.                       *)
(***************************************************************************)
\* the tree of the project file an output file was copied from
SourceNode(outPath) ==
    LET orig == fileMapping[outPath]
    IN  ParseFile(tree[CHOOSE i \in 1..Len(tree) : tree[i].path = orig].text).node

TextContains(lines, sub) == \E i \in 1..Len(lines) : Contains(lines[i], sub)

\* an interpreted string literal of the file stands in the output as a call of
\* the decrypt function
LiteralReplaced(outPath) ==
    /\ outPath \notin DOMAIN skippedFiles
    /\ LET lits == SourceNode(outPath).lits
       IN  \E i \in 1..Len(lits) :
              /\ ~HasPrefix(lits[i], Backquote)
              /\ TextContains(outTree[outPath],
                              DecryptCall(encryptionKey, SubSeq(lits[i], 2, Len(lits[i]) - 1)))

\* the output file holds the definition of the decrypt function
DefinesDecryptFunc(outPath) ==
    \E i \in 1..Len(outTree[outPath]) : outTree[outPath][i] = decryptFunctionLines[1]

OutputDirs == {Dir(q) : q \in DOMAIN outTree}

\* C11: after the rewrite, every package (directory) in which a string literal
\* was replaced by a call of the decrypt function holds the definition of that
\* function in exactly one of its files
C11_HelperOncePerPackage ==
    phase = "returned" =>
        \A dir \in OutputDirs :
            (\E q \in DOMAIN outTree : Dir(q) = dir /\ LiteralReplaced(q))
            => Cardinality({q \in DOMAIN outTree : Dir(q) = dir /\ DefinesDecryptFunc(q)}) = 1

\* the number of backquotes in a line
CountBackquotes(line) == Cardinality({j \in 1..Len(line) : CharAt(line, j) = Backquote})

RECURSIVE BackquotesBefore(_, _)
BackquotesBefore(lines, i) ==
    IF i <= 1 THEN 0 ELSE BackquotesBefore(lines, i - 1) + CountBackquotes(lines[i - 1])

\* the lines of a declaration text that hold (part of) a raw string literal
RawLiteralLines(code) ==
    {code[i] : i \in {k \in 1..Len(code) :
                        \/ CountBackquotes(code[k]) > 0
                        \/ BackquotesBefore(code, k) % 2 = 1}}

\* the rewrite has written the output file
Rewritten(outPath) ==
    /\ outPath \in visited
    /\ outPath \notin DOMAIN skippedFiles
    /\ phase # "failed"

\* C12: string encryption never changes a raw string literal: every line of a
\* raw literal, double-quoted text inside it included, stands unchanged in the
\* rewritten file
C12_RawLiteralsUnchanged ==
    \A q \in DOMAIN outTree :
        Rewritten(q) =>
            \A line \in RawLiteralLines(SourceNode(q).code) :
                \E i \in 1..Len(outTree[q]) : outTree[q][i] = line

(***************************************************************************)
(* Properties of junk-code injection.                                      *)
(***************************************************************************)
\* a function of the file carries a //go: directive in its doc comment
HasDirectiveFunc(node) ==
    \E k \in 1..Len(node.funcs) :
        \E i \in 1..Len(node.funcs[k].Doc) : HasPrefix(node.funcs[k].Doc[i], "//go:")

\* the text holds statements of generateJunkStatements
HoldsJunk(lines) ==
    \E i \in 1..Len(lines) : \E r \in generateRandomString(8) : lines[i] = JunkStmts(r)[1]

\* C14: at no point of a run does the output hold injected statements in a file
\* whose only function carries a //go: directive in its doc comment, whether
\* comments are stripped or not
C14_DirectiveFuncNeverInjected ==
    \A q \in DOMAIN outTree :
        HasDirectiveFunc(SourceNode(q)) => ~HoldsJunk(outTree[q])

(***************************************************************************)
(* Properties of the handling of files.                                    *)
(***************************************************************************)
\* the text of the project file at a path
ProjectText(path) == tree[CHOOSE i \in 1..Len(tree) : tree[i].path = path].text

Copied == phase \in {"apply", "returned"}

C16_LocalRenamedToOwnReplacement ==
    \A f \in rewritten \cap DOMAIN fileScopes :
        \A o \in fileScopes[f].Children :
            (/\ ~isExported(o.name)
             /\ ~shouldProtect(o.name)
             /\ o \in DOMAIN objectMapping
             /\ objectMapping[o] # "")
            => \A id \in Idents :
                  (id.name = o.name /\ ~id.typeRef) => output[f][id] = objectMapping[o]

\* C17: a renamed file keeps every platform token of its name: <base>_<GOOS>_<GOARCH>.go
\* becomes f<random>_<GOOS>_<GOARCH>.go
C17_PlatformTokensKept ==
    Copied =>
        \A q \in DOMAIN outTree :
            fileMapping[q] # q =>
                /\ HasPrefix(Base(q), "f")
                /\ HasSuffix(Base(q),
                             PlatformTokens(TrimSuffix(Base(fileMapping[q]), ".go")) \o ".go")

\* the marker comments of generated code
GeneratedMarkers ==
    {"// Code generated", "// DO NOT EDIT", "// autogenerated", "// AUTO-GENERATED"}

\* the comments ahead of the package clause hold a marker
HeaderMarked(lines) ==
    \E i \in 1..Len(lines) :
        /\ \A k \in 1..i : ~HasPrefix(lines[k], "package ")
        /\ \E m \in GeneratedMarkers : Contains(lines[i], m)

\* C18: with SkipGeneratedCode on, the walk records as skipped every file whose
\* name has a generated suffix and every file whose header carries a marker
\* comment, whatever its name
C18_GeneratedSkippedBySuffixOrMarker ==
    (phase # "walk" /\ Config.SkipGeneratedCode) =>
        \A i \in 1..Len(tree) :
            (isGeneratedFile(tree[i].path) \/ HeaderMarked(tree[i].text))
            => tree[i].path \in DOMAIN skippedFiles

(***************************************************************************)
(* Properties of the path pass.                                            *)
(***************************************************************************)
\* the paths the path pass ranges over
ProjectPaths(cfg) ==
    {k \in DOMAIN cfg.PackageReplacements :
        /\ ~standardLibsGlobal(TrimSuffix(k, "."))
        /\ Contains(TrimSuffix(k, "."), "/")}

\* the offsets at which the artifact holds a path, the last bytes of the file excluded
\* as in the loop of the pass, and no "." behind it (no pattern of the prefix pass)
PathOccurrences(path) ==
    {j \in 0..(Len(origData) - Len(path) - 1) :
        /\ Slice(origData, j, j + Len(path)) = Bytes(path)
        /\ origData[j + Len(path) + 1] # Ord["."]}

\* obfuscateFunctionNames has run on the artifact
Patched == bpc \in {"write", "done"} /\ modified

\* the patched buffer holds the replacement and zero bytes in place of the occurrence
ReplacedAt(j, path, replacement) ==
    Slice(newData, j, j + Len(path))
        = Bytes(replacement) \o [i \in 1..(Len(path) - Len(replacement)) |-> 0]

\* the byte before the occurrence is no letter and no underscore, the byte after
\* it no letter, digit or underscore
NeighboursAllow(j, length) ==
    /\ j > 0 => ~(IsLetterByte(origData[j]) \/ origData[j] = Ord["_"])
    /\ LET nextChar == origData[j + length + 1]
       IN  ~(IsLetterByte(nextChar) \/ IsDigitByte(nextChar) \/ nextChar = Ord["_"])

\* C19 (as claimed): an occurrence of a project path whose surrounding bytes hold
\* a denylisted system path fragment is never replaced by the path pass
C19_DenylistedOccurrenceKept ==
    Patched =>
        \A k \in ProjectPaths(lo.config) :
            \A j \in PathOccurrences(TrimSuffix(k, ".")) :
                ~isSafeToReplace(origData, j, Len(TrimSuffix(k, ".")))
                => Slice(newData, j, j + Len(TrimSuffix(k, ".")))
                     = Slice(origData, j, j + Len(TrimSuffix(k, ".")))

\* C19 (amended): the path pass consults no denylist; an occurrence whose
\* surrounding bytes hold a denylisted fragment is replaced (zero-padded)
\* whenever its neighbour bytes pass the looser check and the replacement is
\* not longer than the path
C19_DenylistedOccurrenceReplaced ==
    Patched =>
        \A k \in ProjectPaths(lo.config) :
            LET path == TrimSuffix(k, ".")
                replacement == TrimSuffix(lo.config.PackageReplacements[k], ".")
            IN  \A j \in PathOccurrences(path) :
                    (/\ ~isSafeToReplace(origData, j, Len(path))
                     /\ NeighboursAllow(j, Len(path))
                     /\ Len(replacement) <= Len(path))
                    => ReplacedAt(j, path, replacement)

\* the pass has replaced a/b behind /usr/lib/
C19_Witness ==
    /\ Patched
    /\ \E k \in ProjectPaths(lo.config) :
          LET path == TrimSuffix(k, ".")
          IN  \E j \in PathOccurrences(path) :
                 /\ ~isSafeToReplace(origData, j, Len(path))
                 /\ ReplacedAt(j, path, TrimSuffix(lo.config.PackageReplacements[k], "."))
                 /\ newData # origData

\* C20: the phase changes bytes only inside the window of 10 MB that starts at
\* the pclntab offset; every byte outside it is as it was
C20_OnlyWindowModified ==
    Patched =>
        LET pclntabOffset == findPclntabMagic(origData)
        IN  /\ Len(newData) = Len(origData)
            /\ \A i \in 1..Len(origData) :
                  (i <= pclntabOffset \/ i > pclntabOffset + 10 * 1024 * 1024)
                  => newData[i] = origData[i]

(***************************************************************************)
(* Files under vendor/.                                                    *)
(***************************************************************************)
\* C21: a file under vendor/ takes no part in the source pipeline: it has no
\* scope tree, and at every point of the run the output tree holds each of its
\* identifiers as the project holds it
C21_VendorFilesUntouched ==
    \A f \in VendorFiles :
        /\ f \notin DOMAIN fileScopes
        /\ f \in DOMAIN output => \A id \in Idents : output[f][id] = id.name

(***************************************************************************)
(* Scope analysis, declaration by declaration.  A declaration is given by  *)
(* its shape, the name it declares and the name its signature, field list  *)
(* or method list introduces.                                              *)
(***************************************************************************)
MaxFileDecls == 2   \* declarations drawn per file

DeclShapes == {"FuncDecl", "MethodDecl", "VarSpec", "ConstSpec",
               "TypeIdent", "TypeStruct", "TypeFunc", "TypeInterface"}

Decls == [shape : DeclShapes, name : Names, inner : Names]

\* declareObject, with the node it records as Decl
declareObjectAt(path, level, name, kind, decl) ==
    [file |-> path, level |-> level, name |-> name, kind |-> kind,
     IsExported |-> isExported(name), Decl |-> decl]

\* analyzeFieldList with the file scope as current scope
analyzeFieldList(path, sc, name, kind) ==
    [sc EXCEPT !.Objects = MapPut(sc.Objects, name, declareObjectAt(path, "file", name, kind, "Field"))]

\* analyzeFuncDecl: the name goes to the current scope unless the function is a
\* method; receiver, parameters and results go to the scope of the function
analyzeFuncDecl(path, sc, d) ==
    LET named == IF d.shape = "MethodDecl" THEN sc.Objects
                 ELSE MapPut(sc.Objects, d.name,
                             declareObjectAt(path, "file", d.name, "ObjFunc", "FuncDecl"))
    IN  [Objects |-> named,
         Children |-> sc.Children \cup {declareObjectAt(path, "local", d.inner, "ObjVar", "Field")}]

\* analyzeGenDecl: a ValueSpec declares its names; a TypeSpec declares the type
\* name and hands the type expression to analyzeExpr
analyzeGenDecl(path, sc, d) ==
    LET valueSpec(kind) ==
            [sc EXCEPT !.Objects = MapPut(sc.Objects, d.name,
                                          declareObjectAt(path, "file", d.name, kind, "ValueSpec"))]
        typeSpec ==
            [sc EXCEPT !.Objects = MapPut(sc.Objects, d.name,
                                          declareObjectAt(path, "file", d.name, "ObjType", "TypeSpec"))]
    IN  CASE d.shape = "VarSpec" -> valueSpec("ObjVar")
          [] d.shape = "ConstSpec" -> valueSpec("ObjConst")
          [] d.shape = "TypeIdent" -> typeSpec
          [] d.shape = "TypeStruct" -> analyzeFieldList(path, typeSpec, d.inner, "ObjField")
          [] d.shape = "TypeFunc" -> analyzeFieldList(path, typeSpec, d.inner, "ObjVar")
          [] d.shape = "TypeInterface" -> analyzeFieldList(path, typeSpec, d.inner, "ObjMethod")

analyzeDecl(path, sc, d) ==
    IF d.shape \in {"FuncDecl", "MethodDecl"}
    THEN analyzeFuncDecl(path, sc, d)
    ELSE analyzeGenDecl(path, sc, d)

\* Analyze: the declarations of the file in order, from an empty file scope
RECURSIVE AnalyzeLoop(_, _, _, _)
AnalyzeLoop(path, decls, i, sc) ==
    IF i > Len(decls) THEN sc
    ELSE AnalyzeLoop(path, decls, i + 1, analyzeDecl(path, sc, decls[i]))

AnalyzeFile(path, decls) ==
    AnalyzeLoop(path, decls, 1, [Objects |-> [n \in {} |-> 0], Children |-> {}])

FileDecls == UNION {[1..n -> Decls] : n \in 0..MaxFileDecls}

\* Run, phase 2: buildScopeAnalysis over a project of one file
BuildScopeAnalysisOfDecls ==
    /\ phase = "scope"
    /\ \E decls \in FileDecls :
          fileScopes' = [f \in {"a.go"} |-> AnalyzeFile(f, decls)]
    /\ phase' = "build"
    /\ UNCHANGED <<Config, protectedNames, packageNames, importAliasMapping, objectMapping,
                   funcMapping, varMapping, namingCounter, output, rewritten>>
    /\ UNCHANGED <<binVars, treeVars, cryptVars>>

NextScope ==
    \/ CollectImportInfo
    \/ CollectProtectedNames
    \/ BuildScopeAnalysisOfDecls
    \/ BuildObfuscationMapsWithScope

SpecScope == Init /\ [][NextScope]_vars

\* C22: after scope analysis the object table of a file's root scope holds only
\* what package-level declarations declare (functions, variables, constants,
\* types), never a name of a parameter list, field list or method list of a type
\* declaration, and no such name is a package-level key of the identity-keyed mapping
C22_RootTableOnlyPackageLevel ==
    \A f \in DOMAIN fileScopes :
        /\ \A n \in DOMAIN GetFileScope(fileScopes[f]) :
              GetFileScope(fileScopes[f])[n].Decl \in {"FuncDecl", "ValueSpec", "TypeSpec"}
        /\ \A o \in DOMAIN objectMapping : o.level = "file" => o.Decl # "Field"

(***************************************************************************)
(* Independence of the per-file transformations.                           *)
(***************************************************************************)
\* C23: the transformation of one file reads nothing the transformation of
\* another file wrote: the text the rewrite left for a file is a text the
\* transformation produces for it from the state frozen at the start of the
\* rewrite phase, whichever files were rewritten before it
C23_OutputIndependentOfOtherFiles ==
    \A q \in visited \ DOMAIN skippedFiles :
        LET parsed == ParseFile(ProjectText(fileMapping[q]))
        IN  ~parsed.err =>
               \E res \in obfuscateFileWithMapping(Config, encryptionKey, EmptyMap,
                                                   fileMapping, q, parsed.node) :
                  outTree[q] = res.text

(***************************************************************************)
(* Collection of the protected names, file by file.  A file is given by    *)
(* what collectProtectedNames and protectReflectionTypes inspect: imports, *)
(* type names, struct fields, interface methods, selector expressions and  *)
(* methods.                                                                *)
(***************************************************************************)
\* filepath.Base(o.projectRoot)
projectName == "proj"

isProjectImportPath(importPath) ==
    IF ~Contains(importPath, ".") THEN FALSE
    ELSE IF HasPrefix(importPath, "golang.org/x/") THEN FALSE
    ELSE IF HasPrefix(importPath, "gopkg.in/") THEN FALSE
    ELSE \/ Contains(importPath, "/" \o projectName \o "/")
         \/ HasSuffix(importPath, "/" \o projectName)

\* importPaths of collectProtectedNames: package name or alias -> import path
importPathsOf(node) ==
    [n \in {IF imp.name # "" THEN imp.name ELSE Base(imp.path) : imp \in node.imports} |->
        (CHOOSE imp \in node.imports :
            n = IF imp.name # "" THEN imp.name ELSE Base(imp.path)).path]

\* variant that keeps only the names of the file at hand
collectProtectedNamesOverwrite(prot, node) ==
    {f.name : f \in node.fields} \cup node.ifaceMethods \cup node.methods

\* collectProtectedNames: struct fields, embedded types, interface methods, selectors that are
\* not on a package of the project, method names
collectProtectedNames(prot, node) ==
    LET importPaths == importPathsOf(node)
        protectedSel == {s \in node.selectors :
                           ~(s.x \in DOMAIN importPaths /\ isProjectImportPath(importPaths[s.x]))}
    IN  prot \cup {f.name : f \in node.fields}
             \cup node.embedded
             \cup node.ifaceMethods
             \cup {s.sel : s \in protectedSel}
             \cup node.methods

detectReflectionUsage(node) == \E imp \in node.imports : Contains(imp.path, "reflect")

detectJSONUsage(node) ==
    \E imp \in node.imports :
        \/ Contains(imp.path, "encoding/json")
        \/ Contains(imp.path, "encoding/xml")
        \/ Contains(imp.path, "gopkg.in/yaml")

protectReflectionTypes(cfg, prot, node) ==
    LET usesReflection == detectReflectionUsage(node)
        usesJSON == detectJSONUsage(node)
    IN  IF ~cfg.PreserveReflection THEN prot
        ELSE IF ~usesReflection /\ ~usesJSON THEN prot
        ELSE prot \cup (IF usesReflection THEN node.typeNames \cup node.methods ELSE {})
                  \cup {f.name : f \in {g \in node.fields : usesReflection \/ ~g.jsonTag}}

\* the trees a file of the project may have
NoNames == {}

CollectNodes ==
    [fieldsOnly |->       \* type T struct { t int }
        [imports |-> {}, typeNames |-> {"T"},
         fields |-> {[name |-> "t", jsonTag |-> FALSE]}, embedded |-> NoNames, ifaceMethods |-> NoNames,
         selectors |-> {}, methods |-> NoNames],
     stdSelector |->      \* import "fmt"; fmt.T
        [imports |-> {[name |-> "", path |-> "fmt"]}, typeNames |-> NoNames,
         fields |-> {}, embedded |-> NoNames, ifaceMethods |-> NoNames,
         selectors |-> {[x |-> "fmt", sel |-> "T"]}, methods |-> NoNames],
     projectSelector |->  \* import "example.com/proj/q"; q.T; type t interface { t() }
        [imports |-> {[name |-> "", path |-> "example.com/proj/q"]}, typeNames |-> {"t"},
         fields |-> {}, embedded |-> NoNames, ifaceMethods |-> {"t"},
         selectors |-> {[x |-> "q", sel |-> "T"]}, methods |-> NoNames],
     reflectMethod |->    \* import "reflect"; type t int; func (r t) T()
        [imports |-> {[name |-> "", path |-> "reflect"]}, typeNames |-> {"t"},
         fields |-> {}, embedded |-> NoNames, ifaceMethods |-> NoNames,
         selectors |-> {}, methods |-> {"T"}],
     jsonFields |->       \* import "encoding/json"; type t struct { T int (tag json:"t"); *t }
        [imports |-> {[name |-> "", path |-> "encoding/json"]}, typeNames |-> {"t"},
         fields |-> {[name |-> "T", jsonTag |-> TRUE]}, embedded |-> {"t"}, ifaceMethods |-> NoNames,
         selectors |-> {}, methods |-> NoNames],
     bare |->             \* func main() {}
        [imports |-> {}, typeNames |-> NoNames,
         fields |-> {}, embedded |-> NoNames, ifaceMethods |-> NoNames,
         selectors |-> {}, methods |-> NoNames]]

\* the projects of the collection: a.go and b.go with a tree each, and a file
\* under vendor/ with a selector on a standard package
CollectProjects ==
    {<<[path |-> "a.go", node |-> CollectNodes[ka]],
       [path |-> "b.go", node |-> CollectNodes[kb]],
       [path |-> "vendor/v.go", node |-> CollectNodes.stdSelector]>> :
        ka \in {"fieldsOnly", "projectSelector", "reflectMethod", "jsonFields"},
        kb \in {"stdSelector", "bare"}}

\* export renaming is on, so that the verdict on an exported name rests on the
\* collected names
InitCollect ==
    /\ BinIdle
    /\ CryptIdle
    /\ Config \in [ObfuscateExported : {TRUE}, PreserveReflection : BOOLEAN]
    /\ phase = "imports"
    /\ protectedNames = {}
    /\ packageNames = {}
    /\ importAliasMapping = EmptyMap
    /\ fileScopes = EmptyMap
    /\ objectMapping = EmptyMap
    /\ funcMapping = EmptyMap
    /\ varMapping = EmptyMap
    /\ namingCounter = 0
    /\ output = EmptyMap
    /\ rewritten = {}
    /\ tree \in CollectProjects
    /\ skippedFiles = EmptyMap
    /\ fileNameMapping = EmptyMap
    /\ fileMapping = EmptyMap
    /\ outTree = EmptyMap
    /\ decryptFuncAdded = EmptyMap
    /\ visited = {}

\* Run, phase 1: the callback of the walk for one file.  The files are visited
\* in any order; they carry no generated suffix, match no exclude pattern and parse
CollectProtectedNamesOfFile ==
    /\ phase = "collect"
    /\ \E i \in 1..Len(tree) :
          /\ tree[i].path \notin visited
          /\ visited' = visited \cup {tree[i].path}
          /\ protectedNames' =
                IF Contains(tree[i].path, "vendor/") THEN protectedNames
                ELSE protectReflectionTypes(Config,
                        collectProtectedNames(protectedNames, tree[i].node), tree[i].node)
          /\ phase' = IF visited' = {tree[j].path : j \in 1..Len(tree)} THEN "scope" ELSE "collect"
    /\ UNCHANGED <<Config, packageNames, importAliasMapping, fileScopes, objectMapping,
                   funcMapping, varMapping, namingCounter, output, rewritten>>
    /\ UNCHANGED <<tree, skippedFiles, fileNameMapping, fileMapping, outTree, decryptFuncAdded>>
    /\ UNCHANGED <<binVars, cryptVars>>

NextCollect ==
    \/ CollectImportInfo
    \/ CollectProtectedNamesOfFile
    \/ BuildScopeAnalysis
    \/ BuildObfuscationMapsWithScope
    \/ CopyProject
    \/ ObfuscateFile
    \/ RunReturns

SpecCollect == InitCollect /\ [][NextCollect]_vars

\* what one file on its own adds to the protected set
ProtectedByFile(file) ==
    IF Contains(file.path, "vendor/") THEN {}
    ELSE protectReflectionTypes(Config, collectProtectedNames({}, file.node), file.node)

CollectionFinished == phase \notin {"imports", "collect"}

VerdictNames == Names \cup {"main", "fmt", "q", "error", "x"}

\* the verdicts of shouldProtect are those that follow from the union of what
\* each file adds on its own
VerdictsFromUnion ==
    \A name \in VerdictNames :
        shouldProtect(name) <=>
            shouldProtectIn(Config, UNION {ProtectedByFile(tree[i]) : i \in 1..Len(tree)},
                            packageNames, name)

\* C24: when the collection has just finished, shouldProtect gives the verdicts
\* that follow from the union of what each file adds on its own, whatever the
\* order in which the files were visited; no later step changes what the
\* verdict rests on, and no step of the run takes a name out of the protected set
C24_VerdictOrderIndependent ==
    /\ [](phase = "scope" => VerdictsFromUnion)
    /\ [][/\ protectedNames \subseteq protectedNames'
          /\ CollectionFinished => UNCHANGED <<Config, protectedNames, packageNames>>]_vars

\* C24 witness: the run has returned, both files added a name of their own to
\* the protected set, and a name is protected only because it was collected
C24_Witness ==
    /\ phase = "done"
    /\ ProtectedByFile(tree[1]) \ ProtectedByFile(tree[2]) # {}
    /\ ProtectedByFile(tree[2]) \ ProtectedByFile(tree[1]) # {}
    /\ \E name \in VerdictNames :
          shouldProtect(name) /\ ~shouldProtectIn(Config, {}, packageNames, name)

(***************************************************************************)
(* Order of the phases of Run.                                             *)
(***************************************************************************)
PhaseSteps ==
    {<<"imports", "collect">>, <<"collect", "scope">>, <<"scope", "build">>,
     <<"build", "copy">>, <<"copy", "rewrite">>, <<"rewrite", "done">>}

\* C25: Run passes through its phases in the one order import collection,
\* protected-name collection, scope analysis, mapping construction, copy, rewrite;
\* each table is written only in its own phase, and from the start of the rewrite
\* phase to the end of the run the identity-keyed mapping, the name-keyed
\* mappings, the import alias table and the protected set stay as they are
C25_PhasesInOrderMappingsFrozen ==
    [][/\ phase' # phase => <<phase, phase'>> \in PhaseSteps
       /\ phase # "imports" => UNCHANGED <<importAliasMapping, packageNames>>
       /\ phase # "collect" => UNCHANGED protectedNames
       /\ phase # "scope" => UNCHANGED fileScopes
       /\ phase # "build" => UNCHANGED <<objectMapping, funcMapping, varMapping, namingCounter>>
       /\ phase \notin {"copy", "rewrite"} => UNCHANGED output
       /\ phase \in {"rewrite", "done"} =>
             UNCHANGED <<objectMapping, funcMapping, varMapping, importAliasMapping,
                         protectedNames>>]_vars

\* C25 witness: the run has returned, the tables are filled, and the rewrite
\* has changed an identifier of the output tree
C25_Witness ==
    /\ phase = "done"
    /\ objectMapping # EmptyMap
    /\ funcMapping # EmptyMap
    /\ importAliasMapping # EmptyMap
    /\ protectedNames # {}
    /\ \E f \in rewritten : \E id \in Idents : output[f][id] # id.name

(***************************************************************************)
(* Precedence of the rewriter.                                             *)
(***************************************************************************)
\* root scope first, then the name-keyed mappings, then the name itself
Precedence(f, name) ==
    LET fileScope == GetFileScope(fileScopes[f])
    IN  IF /\ name \in DOMAIN fileScope
           /\ fileScope[name] \in DOMAIN objectMapping
           /\ objectMapping[fileScope[name]] # ""
        THEN objectMapping[fileScope[name]]
        ELSE IF name \in DOMAIN funcMapping THEN funcMapping[name]
        ELSE IF name \in DOMAIN varMapping THEN varMapping[name]
        ELSE name

\* the identifier stands where a type is written, or the root scope of the file
\* declares its name as a type
TypeName(f, id) ==
    \/ id.typeRef
    \/ /\ id.name \in DOMAIN GetFileScope(fileScopes[f])
       /\ GetFileScope(fileScopes[f])[id.name].kind = "ObjType"

PackageFiles == {"p/a.go", "p/c.go", "q/b.go"}

PackageWalkOrder == <<"p/a.go", "p/c.go", "q/b.go">>

\* the trees of the three files: the files of one package do not declare a
\* name twice, and no function body declares a variable
PackageAsts ==
    {asts \in [PackageFiles -> [decls : PartialMaps(Names, ObjectKinds, MaxDecls), locals : {{}}]] :
        \A f, g \in PackageFiles :
            (f # g /\ Dir(f) = Dir(g)) => DOMAIN asts[f].decls \cap DOMAIN asts[g].decls = {}}

\* Run, phase 2: buildScopeAnalysis over the files of the two packages
BuildScopeAnalysisOfPackages ==
    /\ phase = "scope"
    /\ \E asts \in PackageAsts :
          fileScopes' = [f \in PackageFiles |-> Analyze(f, asts[f])]
    /\ phase' = "build"
    /\ UNCHANGED <<Config, protectedNames, packageNames, importAliasMapping, objectMapping,
                   funcMapping, varMapping, namingCounter, output, rewritten>>
    /\ UNCHANGED <<binVars, treeVars, cryptVars>>

\* Run, phase 4: copyProjectAndBuildMapping
CopyPackages ==
    /\ phase = "copy"
    /\ output' = [f \in PackageFiles |-> [id \in Idents |-> id.name]]
    /\ phase' = "rewrite"
    /\ UNCHANGED <<Config, protectedNames, packageNames, importAliasMapping, fileScopes,
                   objectMapping, funcMapping, varMapping, namingCounter, rewritten>>
    /\ UNCHANGED <<binVars, treeVars, cryptVars>>

\* Run, phase 5: obfuscateFileWithMapping on the next file of the walk
ObfuscateFileOfPackages ==
    /\ phase = "rewrite"
    /\ Cardinality(rewritten) < Len(PackageWalkOrder)
    /\ LET path == PackageWalkOrder[Cardinality(rewritten) + 1]
       IN  /\ output' = [output EXCEPT ![path] = applyTransformationsWithScope(path)]
           /\ rewritten' = rewritten \cup {path}
    /\ UNCHANGED <<Config, phase, protectedNames, packageNames, importAliasMapping,
                   fileScopes, objectMapping, funcMapping, varMapping, namingCounter>>
    /\ UNCHANGED <<binVars, treeVars, cryptVars>>

\* Run returns
RunOverPackagesReturns ==
    /\ phase = "rewrite"
    /\ Cardinality(rewritten) = Len(PackageWalkOrder)
    /\ phase' = "done"
    /\ UNCHANGED <<Config, protectedNames, packageNames, importAliasMapping, fileScopes,
                   objectMapping, funcMapping, varMapping, namingCounter, output, rewritten>>
    /\ UNCHANGED <<binVars, treeVars, cryptVars>>

NextPackages ==
    \/ CollectImportInfo
    \/ CollectProtectedNames
    \/ BuildScopeAnalysisOfPackages
    \/ BuildObfuscationMapsWithScope
    \/ CopyPackages
    \/ ObfuscateFileOfPackages
    \/ RunOverPackagesReturns

SpecPackages == Init /\ [][NextPackages]_vars

\* C29: a name that a file declares as a package-level type stands under that
\* name at every reference in every rewritten file of the package, the files
\* that do not declare the type included, also when another package declares a
\* function or variable of that name
C29_TypeNamesKept ==
    \A f, g \in PackageFiles : \A n \in Names :
        (/\ f \in rewritten
         /\ Dir(f) = Dir(g)
         /\ n \in DOMAIN GetFileScope(fileScopes[g])
         /\ GetFileScope(fileScopes[g])[n].kind = "ObjType")
        => \A id \in Idents : (id.name = n /\ id.role = "ref") => output[f][id] = n

(***************************************************************************)
(* The automatic discovery of the replacement table ahead of the build:    *)
(* the module path, the directories holding Go files, the short names.     *)
(***************************************************************************)
MaxStandardPackages == 1   \* entries of getStandardPackages the table carries

getStandardPackages ==
    <<"main", "runtime", "sync", "syscall", "fmt", "io", "bufio", "os", "log", "net", "http",
      "strings", "bytes", "strconv", "unicode", "regexp", "encoding", "json", "xml",
      "base64", "hex", "time", "math", "sort", "container", "list", "heap", "path",
      "filepath", "errors", "context", "compress", "gzip", "zlib", "hash", "crc32",
      "crc64", "fnv">>

\* generateShortName of the linker: a, b, ..., z, aa, ab, ...
linkerShortName(index) ==
    IF index < 26 THEN CharAt(letters, index + 1)
    ELSE CharAt(letters, (index \div 26 - 1) + 1) \o CharAt(letters, (index % 26) + 1)

\* filepath.ToSlash(relPath) of a directory given by its components
RECURSIVE JoinSlash(_)
JoinSlash(dir) ==
    IF Len(dir) = 0 THEN "."
    ELSE IF Len(dir) = 1 THEN dir[1]
    ELSE dir[1] \o "/" \o JoinSlash(Tail(dir))

\* the walk leaves a directory and what is below it
walkSkipsDir(dir) ==
    \E k \in 1..Len(dir) :
        \/ HasPrefix(dir[k], ".")
        \/ dir[k] \in {"vendor", "testdata", "node_modules"}

\* discoverProjectPackages: the module and its directories with Go files, collected
\* in a map, copied to a slice in the order of the map and sorted by length, longest first
discoverProjectPackages(moduleName, goDirs) ==
    LET packages == {moduleName} \cup
                    {moduleName \o "/" \o JoinSlash(dir) :
                        dir \in {g \in goDirs : ~walkSkipsDir(g) /\ Len(g) > 0}}
    IN  {result \in Perms(packages) :
            \A i, j \in 1..Len(result) : i < j => Len(result[i]) >= Len(result[j])}

\* generateReplacements: the i-th package of the slice gets the i-th short name, in a map
generateReplacements(packages) ==
    [pkg \in {packages[i] : i \in 1..Len(packages)} |->
        linkerShortName((CHOOSE i \in 1..Len(packages) :
                            packages[i] = pkg /\ \A k \in (i + 1)..Len(packages) : packages[k] # pkg) - 1)]

\* discoverAndGeneratePackageReplacements: the tables it may leave in the configuration
discoverAndGeneratePackageReplacements(cfg, project) ==
    IF project.moduleName = "" THEN {cfg.PackageReplacements}
    ELSE {generateReplacements(packages \o SubSeq(getStandardPackages, 1, MaxStandardPackages)) :
            packages \in discoverProjectPackages(project.moduleName, project.goDirs)}

DiscoverModules == {"", "a/b", "m"}

DiscoverDirs == {<< >>, <<"c">>, <<"vendor", "c">>}

DiscoverProjects == [moduleName : DiscoverModules, goDirs : SUBSET DiscoverDirs]

DiscoverArtifacts ==
    {Headers.ELF \o go12magic \o <<0>> \o Bytes(w) \o <<n>> :
        w \in {"a/b/c", "a/b", "m/c", "a/b/c.Run", "main.Run"}, n \in {0, Ord["("]}}

DiscoverConfigs ==
    [PackageReplacements : {EmptyMap, "a/b" :> "z"}, OnlyObfuscateProject : {FALSE},
     DisablePclntab : {FALSE}, RemoveFuncNames : {TRUE}, AutoDiscoverPackages : BOOLEAN]

InitDiscover ==
    /\ SrcIdle
    /\ TreeIdle
    /\ CryptIdle
    /\ lo \in [config : DiscoverConfigs, project : DiscoverProjects]
    /\ origData \in DiscoverArtifacts
    /\ artifact = origData
    /\ backup = NoFile
    /\ newData = << >>
    /\ modified = FALSE
    /\ patches = {}
    /\ pending = << >>
    /\ bpc = "discover"

\* BuildWithLinkerObfuscation up to the build: step 0 fills an empty table when asked to
DiscoverPackages ==
    /\ bpc = "discover"
    /\ IF lo.config.AutoDiscoverPackages /\ DOMAIN lo.config.PackageReplacements = {}
       THEN \E table \in discoverAndGeneratePackageReplacements(lo.config, lo.project) :
               lo' = [lo EXCEPT !.config.PackageReplacements = table]
       ELSE lo' = lo
    /\ bpc' = "read"
    /\ UNCHANGED <<origData, artifact, backup, newData, modified, patches, pending>>
    /\ UNCHANGED <<srcVars, treeVars, cryptVars>>

NextDiscover ==
    \/ DiscoverPackages
    \/ ReadAndProcess
    \/ WriteBackup
    \/ WriteOutputBin

SpecDiscover == InitDiscover /\ [][NextDiscover]_vars

\* the table came from the discovery and holds a path and a longer path below it
DiscoveredNested(short, long) ==
    /\ lo.config.AutoDiscoverPackages
    /\ {short, long} \subseteq DOMAIN lo.config.PackageReplacements
    /\ HasPrefix(long, short \o "/")

\* the bytes the path pass writes over an occurrence of the path
PathWritten(path) ==
    LET replacement == Bytes(lo.config.PackageReplacements[path])
    IN  replacement \o [k \in 1..(Len(path) - Len(replacement)) |-> 0]

\* C27: with a discovered table holding a path and a longer path below it, every
\* occurrence of the longer path that the path pass may patch (the prefix pass leaves
\* it: no dot follows) carries, in the patched bytes, the replacement of the longer
\* path, whatever the order in which the entries of the table are processed
C27_SubPackageReplacedFirst ==
    \A short, long \in DOMAIN lo.config.PackageReplacements :
        (DiscoveredNested(short, long) /\ bpc \in {"write", "done"} /\ modified) =>
            \A j \in 0..(Len(origData) - Len(long) - 1) :
                (/\ Slice(origData, j, j + Len(long)) = Bytes(long)
                 /\ NeighboursAllow(j, Len(long))
                 /\ origData[j + Len(long) + 1] # Ord["."])
                => Slice(newData, j, j + Len(long)) = PathWritten(long)

(***************************************************************************)
(* Replacement-name generation on its own: the Objects marked "" are named *)
(* one after the other, as the third step of the builder does.             *)
(***************************************************************************)
NameObjects ==
    {declareObject("a.go", "local", n, "ObjVar") : n \in {"t", "u", "v"}}
    \cup {declareObject("a.go", "file", n, "ObjFunc") : n \in {"t", "T"}}

InitNames ==
    /\ Config = [ObfuscateExported |-> TRUE]
    /\ phase = "build"
    /\ protectedNames = {}
    /\ packageNames = {}
    /\ importAliasMapping \in {EmptyMap} \cup {"fmt" :> ("p" \o r) : r \in generateRandomString(8)}
    /\ fileScopes = EmptyMap
    /\ objectMapping \in {[o \in objs |-> ""] : objs \in SUBSET NameObjects}
    /\ funcMapping = EmptyMap
    /\ varMapping = EmptyMap
    /\ namingCounter = 0
    /\ output = EmptyMap
    /\ rewritten = {}
    /\ BinIdle
    /\ TreeIdle
    /\ CryptIdle

\* one iteration of the loop over o.objectMapping: an Object still marked "" gets its name
GenerateNameForObject ==
    /\ phase = "build"
    /\ \E obj \in DOMAIN objectMapping :
          /\ objectMapping[obj] = ""
          /\ \E g \in generateUniqueObfuscatedNameForObject(obj, objectMapping, namingCounter) :
                /\ objectMapping' = MapPut(objectMapping, obj, g.name)
                /\ namingCounter' = g.counter
    /\ UNCHANGED <<Config, phase, protectedNames, packageNames, importAliasMapping, fileScopes,
                   funcMapping, varMapping, output, rewritten>>
    /\ UNCHANGED <<binVars, treeVars, cryptVars>>

NextNames == GenerateNameForObject

SpecNames == InitNames /\ [][NextNames]_vars

\* a name of the counter fallback: the only names that hold an underscore
IsCounterName(name) == Contains(name, "_")

IssuedNames == {n \in MapValues(objectMapping) : n # ""}

\* C28: whatever the mappings hold, the generator has a result for every Object (its
\* loop is bounded by maxAttempts and it has no error result); a name of the counter
\* fallback differs from every other name issued, and the naming counter has grown by
\* one for each such name
C28_GenerationTerminatesFresh ==
    /\ \A obj \in NameObjects :
          generateUniqueObfuscatedNameForObject(obj, objectMapping, namingCounter) # {}
    /\ \A o1, o2 \in DOMAIN objectMapping :
          (o1 # o2 /\ IsCounterName(objectMapping[o1])) =>
              /\ objectMapping[o1] # objectMapping[o2]
              /\ objectMapping[o1] \notin MapValues(importAliasMapping)
    /\ namingCounter = Cardinality({n \in IssuedNames : IsCounterName(n)})

\* two Objects named by the counter fallback after two others took the random names
C28_Witness ==
    /\ namingCounter = 2
    /\ \E o1, o2 \in DOMAIN objectMapping :
          /\ o1 # o2
          /\ o1.kind = o2.kind
          /\ IsCounterName(objectMapping[o1])
          /\ IsCounterName(objectMapping[o2])
    /\ \A o \in DOMAIN objectMapping : objectMapping[o] # ""

\* C30: with the default pattern table, the bytes the prefix pass writes for a prefix
\* are neither that prefix nor another prefix of the table, no offset is patched for
\* two prefixes, and two different prefixes never get the same bytes written
C30_ReplacementNeverAPrefix ==
    (bpc \in {"write", "done"} /\ modified /\ DOMAIN lo.config.PackageReplacements = {}) =>
        /\ \A p \in patches :
              p.written \notin {Bytes(q) : q \in ConfiguredPatterns(lo.config)}
        /\ \A p1, p2 \in patches :
              /\ p1.pos = p2.pos => p1.pattern = p2.pattern
              /\ p1.written = p2.written => p1.pattern = p2.pattern

====
